---------------------------- MODULE Spec2Model ----------------------------
(***************************************************************************)
(* A model of cost_estimator.py: calculate_financials, the function that   *)
(* maps eight numeric inputs to a report of costs, revenue and net profit, *)
(* and the invocations of it.                                              *)
(*                                                                         *)
(* Python's float is modelled as IEEE 754 binary64: [neg, m, e] is the     *)
(* value (+/-) m * 2^e with 2^52 <= m < 2^53, and +, -, * and / round to   *)
(* nearest, ties to even, exactly as the interpreter does.  A significand  *)
(* exceeds 32 bits, so naturals are sequences of base-2^15 limbs, least    *)
(* significant first.  Zero has the empty significand and keeps its sign.  *)
(* Infinities, NaN and subnormals are left out: no input of the modelled   *)
(* domain reaches them.  An int is modelled by the float of the same value *)
(* (every int of the domain is below 2^53, where the conversion is exact). *)
(***************************************************************************)
EXTENDS Integers, Sequences, FiniteSets, TLC

Base == 2^15

---------------------------------------------------------------------------
(* Natural numbers of any size: <<>> is 0, no most-significant zero limb.  *)
(* The operations are written without recursion over the limbs where a     *)
(* closed form exists (carries by look-ahead), which keeps evaluation      *)
(* shallow.                                                                *)

\* the limbs f[1], ..., f[n] as a tuple
Limbs(f) == f \o <<>>

\* a without its most-significant zero limbs
NTrim(a) ==
    IF a = <<>> THEN <<>>
    ELSE IF a[Len(a)] # 0 THEN a
    ELSE LET nz == {i \in 1..Len(a) : a[i] # 0}
         IN  IF nz = {} THEN <<>>
             ELSE SubSeq(a, 1, CHOOSE i \in nz : \A j \in nz : j <= i)

\* the natural 0 <= i < 2^31
NOf(i) == NTrim(<<i % Base, (i \div Base) % Base, i \div (Base * Base)>>)

NLimb(a, i) == IF 1 <= i /\ i <= Len(a) THEN a[i] ELSE 0

\* the int a < 2^30
NToInt(a) == NLimb(a, 1) + Base * NLimb(a, 2)

\* the sum of F(lo), ..., F(hi), by halves
RECURSIVE SumRange(_, _, _)
SumRange(F(_), lo, hi) ==
    IF lo > hi THEN 0
    ELSE IF lo = hi THEN F(lo)
    ELSE SumRange(F, lo, (lo + hi) \div 2) + SumRange(F, (lo + hi) \div 2 + 1, hi)

\* the number whose limb i is s[i] % Base plus s[i-1] \div Base, for
\* 0 <= s[i] < Base * Base: the carries out of the limb sums t
NCarried(s) ==
    LET n == Len(s)
        t == Limbs([i \in 1..(n + 1) |->
                       (IF i <= n THEN s[i] % Base ELSE 0)
                       + (IF i > 1 THEN s[i - 1] \div Base ELSE 0)])
        \* a carry enters limb i when a limb below overflows and every limb
        \* between passes it on
        carry(i) == IF \E j \in 1..(i - 1) :
                            /\ t[j] >= Base
                            /\ \A k \in (j + 1)..(i - 1) : t[k] >= Base - 1
                    THEN 1 ELSE 0
    IN  IF s = <<>> THEN <<>>
        ELSE NTrim(Limbs([i \in 1..(n + 2) |->
                             ((IF i <= n + 1 THEN t[i] ELSE 0) + carry(i)) % Base]))

NAdd(a, b) ==
    IF a = <<>> THEN b
    ELSE IF b = <<>> THEN a
    ELSE NCarried(Limbs([i \in 1..(IF Len(a) >= Len(b) THEN Len(a) ELSE Len(b)) |->
                            NLimb(a, i) + NLimb(b, i)]))

\* a - b for a >= b
NSub(a, b) ==
    LET d == Limbs([i \in 1..Len(a) |-> a[i] - NLimb(b, i)])
        borrow(i) == IF \E j \in 1..(i - 1) :
                             /\ d[j] < 0
                             /\ \A k \in (j + 1)..(i - 1) : d[k] <= 0
                     THEN 1 ELSE 0
    IN  IF b = <<>> \/ a = <<>> THEN a
        ELSE NTrim(Limbs([i \in 1..Len(a) |-> (d[i] - borrow(i) + Base) % Base]))

\* -1, 0 or 1 as a < b, a = b, a > b
NCmp(a, b) ==
    IF Len(a) < Len(b) THEN -1
    ELSE IF Len(a) > Len(b) THEN 1
    ELSE IF a = b THEN 0
    ELSE IF \E i \in 1..Len(a) :
                a[i] < b[i] /\ \A k \in (i + 1)..Len(a) : a[k] = b[k]
    THEN -1 ELSE 1

\* a * k for 0 <= k < Base
NMulSmall(a, k) ==
    IF a = <<>> \/ k = 0 THEN <<>> ELSE NCarried(Limbs([i \in 1..Len(a) |-> a[i] * k]))

\* a * Base^j
NShift(a, j) == IF a = <<>> THEN a ELSE [i \in 1..j |-> 0] \o a

\* a \div Base^j
NDrop(a, j) == IF j >= Len(a) THEN <<>> ELSE SubSeq(a, j + 1, Len(a))

\* a * b: column k collects the low halves of the limb products a[i] * b[j]
\* with i + j = k + 1 and the high halves of those with i + j = k
NMul(a, b) ==
    LET n == Len(a)
        m == Len(b)
        from(k) == IF k > m THEN k + 1 - m ELSE 1
        to(k)   == IF k < n THEN k ELSE n
        lo(k) == SumRange(LAMBDA i : (a[i] * b[k + 1 - i]) % Base, from(k), to(k))
        hi(k) == SumRange(LAMBDA i : (a[i] * b[k - i]) \div Base, from(k - 1), to(k - 1))
    IN  IF a = <<>> \/ b = <<>> THEN <<>>
        ELSE NCarried(Limbs([k \in 1..(n + m) |-> lo(k) + hi(k)]))

\* the bit length of 0 <= k < Base
BitsSmall(k) == CHOOSE n \in 0..15 : k < 2^n /\ (n = 0 \/ 2^(n - 1) <= k)

\* the bit length of a
NBits(a) == IF a = <<>> THEN 0 ELSE 15 * (Len(a) - 1) + BitsSmall(a[Len(a)])

\* a * 2^s
NShl(a, s) ==
    LET t == 2^(s % 15)
        u == 2^(15 - (s % 15))
    IN  IF a = <<>> THEN <<>>
        ELSE NShift(NTrim(Limbs([i \in 1..(Len(a) + 1) |->
                                   (NLimb(a, i) % u) * t + (NLimb(a, i - 1) \div u)])),
                    s \div 15)

\* a \div 2^s
NShr(a, s) ==
    LET t == 2^(s % 15)
        u == 2^(15 - (s % 15))
        d == NDrop(a, s \div 15)
    IN  IF a = <<>> THEN <<>>
        ELSE NTrim(Limbs([i \in 1..Len(d) |-> (d[i] \div t) + (NLimb(d, i + 1) % t) * u]))

\* the quotient digit r \div b for r < b * Base, b's top limb >= Base / 2:
\* the estimate from the leading limbs is at most 2 too large
NQuotDigit(r, b) ==
    LET n   == Len(b)
        top == NLimb(r, n + 1) * Base + NLimb(r, n)
        e0  == top \div b[n]
        e1  == IF e0 > Base - 1 THEN Base - 1 ELSE e0
    IN  IF NCmp(NMulSmall(b, e1), r) <= 0 THEN e1
        ELSE IF NCmp(NMulSmall(b, e1 - 1), r) <= 0 THEN e1 - 1
        ELSE e1 - 2

\* one limb more of a long division by b: the limb joins the remainder r of
\* the limbs above it, and the digit d joins their quotient
NDivPut(up, r1, d, b) == [q |-> Append(up.q, d), r |-> NSub(r1, NMulSmall(b, d))]

NDivDigit(up, r1, b) == NDivPut(up, r1, NQuotDigit(r1, b), b)

NDivLimb(up, limb, b) == NDivDigit(up, NTrim(<<limb>> \o up.r), b)

\* long division of the limbs i.. of a by b: the quotient's limbs from the
\* most significant one, and the remainder
RECURSIVE NDivFrom(_, _, _)
NDivFrom(a, b, i) ==
    IF i > Len(a) - Len(b) + 1
    THEN [q |-> <<>>, r |-> IF i > Len(a) THEN <<>> ELSE NTrim(SubSeq(a, i, Len(a)))]
    ELSE NDivLimb(NDivFrom(a, b, i + 1), a[i], b)

\* the quotient's limbs from the least significant one, and the remainder of
\* the division before both sides were shifted by s bits
NDivResult(dm, s) ==
    [q |-> NTrim(Limbs([i \in 1..Len(dm.q) |-> dm.q[Len(dm.q) + 1 - i]])),
     r |-> NShr(dm.r, s)]

\* [q, r] with a = q * b + r and 0 <= r < b, for b > 0
NDivMod(a, b) ==
    IF NCmp(a, b) < 0 THEN [q |-> <<>>, r |-> a]
    ELSE NDivResult(NDivFrom(NShl(a, 15 - BitsSmall(b[Len(b)])),
                             NShl(b, 15 - BitsSmall(b[Len(b)])), 1),
                    15 - BitsSmall(b[Len(b)]))

\* a % 2^s
NLow(a, s) ==
    NTrim(Limbs([i \in 1..(s \div 15 + 1) |->
                    IF i <= s \div 15 THEN NLimb(a, i) ELSE NLimb(a, i) % 2^(s % 15)]))

\* 10^n for n <= 18
NPow10(n) == NMul(NOf(10^(n \div 2)), NOf(10^(n - n \div 2)))

---------------------------------------------------------------------------
(* binary64 *)

\* the float (+/-) m * 2^e with 2^52 <= m < 2^53
Num(neg, m, e) == [neg |-> neg, m |-> m, e |-> e]

\* 0.0, and 0.0 or -0.0 by the sign
Zero == Num(FALSE, <<>>, 0)

SignedZero(neg) == Num(neg, <<>>, 0)

\* a rounded mantissa of 2^53 is 2^52 with the exponent one up
RoundNormal(neg, q, E) ==
    IF NBits(q) = 54 THEN Num(neg, NShr(q, 1), E + 1) ELSE Num(neg, q, E)

\* the 53 bits q are rounded up when the bits dropped are more than half
\* (c > 0), or half (c = 0) and q is odd
RoundQuot(neg, q, c, E) ==
    RoundNormal(neg, IF c > 0 \/ (c = 0 /\ q[1] % 2 = 1) THEN NAdd(q, <<1>>) ELSE q, E)

\* M has 53 + s bits
RoundTo(neg, M, E, s) ==
    IF s <= 0 THEN Num(neg, NShl(M, -s), E + s)
    ELSE RoundQuot(neg, NShr(M, s), NCmp(NLow(M, s), NShl(<<1>>, s - 1)), E + s)

\* the float nearest (+/-) M * 2^E, ties to even
Round(neg, M, E) == IF M = <<>> THEN Zero ELSE RoundTo(neg, M, E, NBits(M) - 53)

\* float(n) for a natural n
FOfNat(n) == Round(FALSE, n, 0)

\* float(i) for an int i
FOfInt(i) == Round(i < 0, NOf(IF i < 0 THEN -i ELSE i), 0)

FNeg(x) == Num(~x.neg, x.m, x.e)

\* (+/-) X * 2^E + (+/-) Y * 2^E
FAddAligned(xn, X, yn, Y, E) ==
    Round(IF xn = yn \/ NCmp(X, Y) >= 0 THEN xn ELSE yn,
          IF xn = yn THEN NAdd(X, Y)
          ELSE IF NCmp(X, Y) >= 0 THEN NSub(X, Y) ELSE NSub(Y, X),
          E)

\* x + y for x.e >= y.e; a y more than 60 bits below x only makes the sum
\* inexact
FAddOrdered(x, y) ==
    FAddAligned(x.neg, NShl(x.m, IF x.e - y.e > 60 THEN 3 ELSE x.e - y.e),
                y.neg, IF x.e - y.e > 60 THEN <<1>> ELSE y.m,
                IF x.e - y.e > 60 THEN x.e - 3 ELSE y.e)

\* a sum of two zeros is -0.0 only when both are; an exact sum of zero from
\* operands that are not zero is 0.0
FAdd(x, y) ==
    IF x.m = <<>> /\ y.m = <<>> THEN SignedZero(x.neg /\ y.neg)
    ELSE IF x.m = <<>> THEN y
    ELSE IF y.m = <<>> THEN x
    ELSE FAddOrdered(IF x.e >= y.e THEN x ELSE y, IF x.e >= y.e THEN y ELSE x)

FSub(x, y) == FAdd(x, FNeg(y))

FMul(x, y) ==
    IF x.m = <<>> \/ y.m = <<>> THEN SignedZero(x.neg # y.neg)
    ELSE Round(x.neg # y.neg, NMul(x.m, y.m), x.e + y.e)

\* the quotient bits, and one more bit set when the division left a remainder
FDivRound(neg, dm, E) ==
    Round(neg, NAdd(NMulSmall(dm.q, 2), IF dm.r = <<>> THEN <<>> ELSE <<1>>), E)

\* x / y for y # 0, from 56 quotient bits
FDiv(x, y) ==
    IF x.m = <<>> \/ y.m = <<>> THEN SignedZero(x.neg # y.neg)
    ELSE FDivRound(x.neg # y.neg, NDivMod(NShl(x.m, 56), y.m), x.e - y.e - 57)

\* -1, 0 or 1 as x < y, x = y, x > y, for x, y >= 0
FCmpAbs(x, y) ==
    IF x.m = <<>> THEN (IF y.m = <<>> THEN 0 ELSE -1)
    ELSE IF y.m = <<>> THEN 1
    ELSE IF x.e < y.e THEN -1
    ELSE IF x.e > y.e THEN 1
    ELSE NCmp(x.m, y.m)

\* 0.0 and -0.0 compare equal
FCmp(x, y) ==
    IF x.m = <<>> /\ y.m = <<>> THEN 0
    ELSE IF x.neg # y.neg THEN (IF x.neg THEN -1 ELSE 1)
    ELSE IF x.neg THEN FCmpAbs(y, x) ELSE FCmpAbs(x, y)

FLt(x, y) == FCmp(x, y) < 0
FLe(x, y) == FCmp(x, y) <= 0
FGt(x, y) == FCmp(x, y) > 0
FGe(x, y) == FCmp(x, y) >= 0

\* the float literal n * 10^-e, the nearest float to that decimal
Dec(n, e) == FDiv(FOfInt(n), FOfNat(NPow10(e)))

---------------------------------------------------------------------------
(* math.log10 and float ** float.  The interpreter hands both to the C     *)
(* library, whose results are not always the float nearest the true value. *)
(* They are modelled operation for operation as the library computes them  *)
(* (glibc 2.36 for x86-64, the routines it selects on a processor with     *)
(* fused multiply-add): the same table look-ups, the same polynomials, the *)
(* same order of additions, and a single rounding in every fused           *)
(* multiply-add.  The tables and coefficients are the library's.           *)

\* the float nearest (+/-) P * 2^pe + z for z # 0 and a product P of 105 or
\* 106 bits: an operand wholly below the other's last bit only makes the
\* sum inexact
FmaSum(pn, P, pe, z) ==
    IF z.e + 56 <= pe THEN FAddAligned(pn, NShl(P, 3), z.neg, <<1>>, pe - 3)
    ELSE IF pe + NBits(P) + 3 <= z.e
         THEN FAddAligned(z.neg, NShl(z.m, 3), pn, <<1>>, z.e - 3)
    ELSE IF pe >= z.e THEN FAddAligned(pn, NShl(P, pe - z.e), z.neg, z.m, z.e)
    ELSE FAddAligned(pn, P, z.neg, NShl(z.m, z.e - pe), pe)

\* fma(x, y, z): x * y + z rounded once
FFma(x, y, z) ==
    IF x.m = <<>> \/ y.m = <<>> THEN FAdd(SignedZero(x.neg # y.neg), z)
    ELSE IF z.m = <<>> THEN FMul(x, y)
    ELSE FmaSum(x.neg # y.neg, NMul(x.m, y.m), x.e + y.e, z)

One == Num(FALSE, <<0, 0, 0, 128>>, -52)

\* the double at place i of a row of a table: sign, the four limbs of the
\* significand, exponent
Double(t, i) ==
    IF t[i + 4] = 0 THEN Zero
    ELSE Num(t[i] = 1, <<t[i + 1], t[i + 2], t[i + 3], t[i + 4]>>, t[i + 5])

\* The reduction of log and of pow.  With off the significand of the
\* double OFF, x = z * 2^k for the k that puts z in [OFF, 2 * OFF), and i
\* is the place of z among the 128 subintervals: the top 7 bits of
\* bits(z) - bits(OFF).
LogReduced(m, E, off) ==
    [k |-> IF NCmp(m, off) >= 0 THEN E + 1 ELSE E,
     i |-> NToInt(NShr(IF NCmp(m, off) >= 0 THEN NSub(m, off)
                       ELSE NSub(NAdd(m, NShl(<<1>>, 52)), off), 45)),
     z |-> Num(FALSE, m, IF NCmp(m, off) >= 0 THEN -53 ELSE -52)]

(* log, the natural logarithm of the library *)

\* the significand of OFF = 0x3fe6000000000000
LogOff == <<0, 0, 0, 176>>

\* The data of log: ln 2 in two parts; poly, the coefficients A of
\* log1p(r) - r for |r| < 1/256; poly1, the coefficients B of log1p(r) - r
\* for x near 1; tab, invc and logc for each subinterval, which are 1/c and
\* log(c) for a c near its centre.  Place i + 1 of a tuple holds the
\* library's entry i.
LogData ==
    [ln2hi |-> Num(FALSE, <<14336, 32244, 14603, 177>>, -53),
     ln2lo |-> Num(FALSE, <<26416, 10126, 19806, 247>>, -97),
     poly |-> <<Num(TRUE, <<1, 0, 0, 128>>, -53),
                Num(FALSE, <<12379, 10914, 21845, 170>>, -54),
                Num(TRUE, <<17808, 32726, 32767, 255>>, -55),
                Num(FALSE, <<273, 18914, 26316, 204>>, -55),
                Num(TRUE, <<18591, 18957, 21975, 170>>, -55)>>,
     poly1 |-> <<Num(TRUE, <<0, 0, 0, 128>>, -53),
                 Num(FALSE, <<21879, 10922, 21845, 170>>, -54),
                 Num(TRUE, <<32203, 32767, 32767, 255>>, -55),
                 Num(FALSE, <<23820, 13099, 26214, 204>>, -55),
                 Num(TRUE, <<17831, 10958, 21845, 170>>, -55),
                 Num(FALSE, <<24112, 18057, 9362, 146>>, -55),
                 Num(TRUE, <<15717, 18564, 32766, 255>>, -56),
                 Num(FALSE, <<22218, 20565, 17936, 227>>, -56),
                 Num(TRUE, <<26879, 1888, 26541, 204>>, -56),
                 Num(FALSE, <<20613, 28511, 1547, 188>>, -56),
                 Num(TRUE, <<17869, 27554, 18509, 170>>, -56)>>,
     tab |->
      <<<<0, 24223, 1985, 21443, 185, -52, 1, 4096, 29645, 12797, 190, -54>>,
        <<0, 26911, 21593, 19937, 184, -52, 1, 0, 1050, 16315, 187, -54>>,
        <<0, 13728, 4597, 18816, 183, -52, 1, 24576, 9891, 20364, 184, -54>>,
        <<0, 3197, 15911, 18072, 182, -52, 1, 30720, 28752, 24940, 181, -54>>,
        <<0, 13521, 6027, 17700, 181, -52, 1, 30720, 8448, 30038, 178, -54>>,
        <<0, 3258, 26206, 17692, 180, -52, 1, 0, 27696, 2881, 176, -54>>,
        <<0, 16931, 12356, 18044, 179, -52, 1, 4096, 3361, 9002, 173, -54>>,
        <<0, 7897, 13130, 18750, 178, -52, 1, 20480, 11270, 15629, 170, -54>>,
        <<0, 9412, 21790, 19802, 177, -52, 1, 16384, 1750, 22751, 167, -54>>,
        <<0, 23572, 22331, 21197, 176, -52, 1, 20480, 31568, 30367, 164, -54>>,
        <<0, 23628, 9612, 22929, 175, -52, 1, 10240, 29459, 5704, 162, -54>>,
        <<0, 11343, 27426, 24990, 174, -52, 1, 14336, 29537, 14288, 159, -54>>,
        <<0, 4318, 5815, 27379, 173, -52, 1, 28672, 2334, 23353, 156, -54>>,
        <<0, 6776, 26034, 30087, 172, -52, 1, 8192, 12155, 120, 154, -54>>,
        <<0, 22151, 9356, 344, 172, -52, 1, 0, 24205, 10123, 151, -54>>,
        <<0, 27603, 7630, 3679, 171, -52, 1, 24576, 28769, 20588, 148, -54>>,
        <<0, 32659, 17742, 7319, 170, -52, 1, 2048, 6581, 31510, 145, -54>>,
        <<0, 17795, 1036, 11261, 169, -52, 1, 4096, 21071, 10116, 143, -54>>,
        <<0, 15839, 14181, 15499, 168, -52, 1, 30720, 22161, 21940, 140, -54>>,
        <<0, 24279, 3689, 20029, 167, -52, 1, 30720, 13683, 1438, 138, -54>>,
        <<0, 10304, 8124, 24847, 166, -52, 1, 6144, 10719, 14146, 135, -54>>,
        <<0, 9160, 241, 29947, 165, -52, 1, 4096, 12726, 27284, 132, -54>>,
        <<0, 9610, 1984, 2559, 165, -52, 1, 14336, 9415, 8089, 130, -54>>,
        <<0, 1076, 18857, 8212, 164, -52, 1, 28672, 2829, 11401, 255, -55>>,
        <<0, 11531, 13874, 14136, 163, -52, 1, 12288, 27183, 7465, 250, -55>>,
        <<0, 6228, 9842, 20327, 162, -52, 1, 12288, 31264, 4368, 245, -55>>,
        <<0, 1114, 2409, 26781, 161, -52, 1, 12288, 2515, 2101, 240, -55>>,
        <<0, 30971, 555, 725, 161, -52, 1, 28672, 21231, 648, 235, -55>>,
        <<0, 29873, 13437, 7691, 160, -52, 1, 4096, 2347, 4, 230, -55>>,
        <<0, 32399, 15023, 14909, 159, -52, 1, 4096, 11538, 165, 225, -55>>,
        <<0, 19689, 16406, 22374, 158, -52, 1, 4096, 6914, 1118, 220, -55>>,
        <<0, 16683, 33, 30083, 157, -52, 1, 20480, 6567, 2855, 215, -55>>,
        <<0, 23224, 22251, 5264, 157, -52, 1, 4096, 23589, 5376, 210, -55>>,
        <<0, 20482, 6975, 13451, 156, -52, 1, 28672, 20539, 8669, 205, -55>>,
        <<0, 31260, 2824, 21871, 155, -52, 1, 12288, 21136, 12725, 200, -55>>,
        <<0, 14050, 4954, 30521, 154, -52, 1, 16384, 19595, 17538, 195, -55>>,
        <<0, 21568, 12443, 6630, 154, -52, 1, 12288, 26664, 23102, 190, -55>>,
        <<0, 19236, 7679, 15731, 153, -52, 1, 28672, 30916, 29408, 185, -55>>,
        <<0, 3401, 27458, 25053, 152, -52, 1, 24576, 13934, 3690, 181, -55>>,
        <<0, 14736, 28284, 1824, 152, -52, 1, 8192, 10607, 11461, 176, -55>>,
        <<0, 30785, 30507, 11578, 151, -52, 1, 12288, 27720, 19957, 171, -55>>,
        <<0, 10705, 1075, 21544, 150, -52, 1, 12288, 8068, 29166, 166, -55>>,
        <<0, 32042, 20847, 31718, 149, -52, 1, 0, 9124, 6321, 162, -55>>,
        <<0, 7083, 29720, 9329, 149, -52, 1, 0, 30982, 16938, 157, -55>>,
        <<0, 13616, 16425, 19913, 148, -52, 1, 0, 22162, 28261, 152, -55>>,
        <<0, 8693, 11951, 30697, 147, -52, 1, 16384, 8520, 7506, 148, -55>>,
        <<0, 15295, 13882, 8910, 147, -52, 1, 8192, 28915, 20199, 143, -55>>,
        <<0, 30141, 1823, 20086, 146, -52, 1, 8192, 19033, 800, 139, -55>>,
        <<0, 2107, 21906, 31454, 145, -52, 1, 8192, 12270, 14845, 134, -55>>,
        <<0, 16566, 22354, 10244, 145, -52, 1, 8192, 5117, 29553, 129, -55>>,
        <<0, 16690, 11672, 21990, 144, -52, 1, 0, 30871, 24310, 250, -56>>,
        <<0, 31899, 15269, 1152, 144, -52, 1, 16384, 11392, 23586, 241, -56>>,
        <<0, 18443, 4762, 13265, 143, -52, 1, 16384, 32242, 24160, 232, -56>>,
        <<0, 25961, 9502, 25557, 142, -52, 1, 8192, 7601, 26013, 223, -56>>,
        <<0, 32380, 8878, 5260, 142, -52, 1, 24576, 16478, 29156, 214, -56>>,
        <<0, 9961, 27030, 17905, 141, -52, 1, 0, 20049, 783, 206, -56>>,
        <<0, 6838, 6232, 30724, 140, -52, 1, 16384, 26341, 6426, 197, -56>>,
        <<0, 28861, 30572, 10945, 140, -52, 1, 0, 26456, 13318, 188, -56>>,
        <<0, 15542, 19423, 24104, 139, -52, 1, 0, 2672, 21445, 179, -56>>,
        <<0, 12762, 27288, 4660, 139, -52, 1, 0, 23311, 30777, 170, -56>>,
        <<0, 24541, 8270, 18150, 138, -52, 1, 24576, 15683, 8563, 162, -56>>,
        <<0, 21068, 18533, 31802, 137, -52, 1, 8192, 6869, 20325, 153, -56>>,
        <<0, 31194, 25633, 12845, 137, -52, 1, 24576, 29066, 487, 145, -56>>,
        <<0, 13617, 20953, 26816, 136, -52, 1, 8192, 12484, 14618, 136, -56>>,
        <<0, 13487, 13576, 8175, 136, -52, 1, 0, 21924, 27057, 255, -57>>,
        <<0, 27571, 7836, 22456, 135, -52, 1, 16384, 5358, 27189, 238, -57>>,
        <<0, 8142, 14933, 4121, 135, -52, 1, 0, 18698, 29619, 221, -57>>,
        <<0, 9505, 18009, 18705, 134, -52, 1, 16384, 37, 1573, 205, -57>>,
        <<0, 6170, 31173, 669, 134, -52, 1, 16384, 26117, 8544, 188, -57>>,
        <<0, 14033, 1932, 15550, 133, -52, 1, 0, 20397, 17785, 171, -57>>,
        <<0, 4921, 12608, 30574, 132, -52, 1, 0, 4811, 29225, 154, -57>>,
        <<0, 26591, 24229, 12974, 132, -52, 1, 16384, 18474, 10125, 138, -57>>,
        <<0, 10491, 24220, 28284, 131, -52, 1, 0, 1495, 19202, 243, -58>>,
        <<0, 3865, 6251, 10966, 131, -52, 1, 0, 9381, 22469, 210, -58>>,
        <<0, 31020, 19417, 26554, 130, -52, 1, 0, 7939, 30091, 177, -58>>,
        <<0, 11408, 7074, 9511, 130, -52, 1, 0, 6484, 9198, 145, -58>>,
        <<0, 11689, 3553, 25371, 129, -52, 1, 0, 16882, 17900, 225, -59>>,
        <<0, 12969, 9970, 8596, 129, -52, 1, 0, 15188, 25813, 160, -59>>,
        <<0, 29512, 20436, 24720, 128, -52, 1, 0, 1496, 18447, 192, -60>>,
        <<0, 12693, 3113, 8208, 128, -52, 1, 0, 29256, 4133, 128, -61>>,
        <<0, 31258, 28237, 127, 255, -53, 0, 0, 2336, 16334, 255, -61>>,
        <<0, 27252, 1219, 1139, 253, -53, 0, 0, 27258, 28932, 190, -59>>,
        <<0, 6446, 24835, 3138, 251, -53, 0, 0, 2437, 14991, 158, -58>>,
        <<0, 11725, 31197, 6104, 249, -53, 0, 0, 10514, 32516, 220, -58>>,
        <<0, 5095, 1826, 10016, 247, -53, 0, 0, 7202, 17251, 141, -57>>,
        <<0, 12715, 29079, 14849, 245, -53, 0, 16384, 8195, 10607, 172, -57>>,
        <<0, 3227, 17722, 20586, 243, -53, 0, 0, 433, 29197, 202, -57>>,
        <<0, 6581, 1557, 27206, 241, -53, 0, 0, 24239, 7595, 233, -57>>,
        <<0, 6742, 4801, 1920, 240, -53, 0, 16384, 19249, 22115, 131, -56>>,
        <<0, 15256, 19183, 10247, 238, -53, 0, 8192, 17946, 20439, 146, -56>>,
        <<0, 4355, 5881, 19400, 236, -53, 0, 0, 5744, 15222, 161, -56>>,
        <<0, 23758, 19958, 29361, 234, -53, 0, 16384, 3759, 6502, 176, -56>>,
        <<0, 24221, 21693, 7346, 233, -53, 0, 0, 27348, 27096, 190, -56>>,
        <<0, 11469, 31958, 18872, 231, -53, 0, 24576, 7224, 11533, 205, -56>>,
        <<0, 30978, 17742, 31158, 229, -53, 0, 24576, 30234, 25374, 219, -56>>,
        <<0, 2157, 23150, 11417, 228, -53, 0, 8192, 26062, 3148, 234, -56>>,
        <<0, 22532, 31418, 25170, 226, -53, 0, 24576, 25532, 10437, 248, -56>>,
        <<0, 8076, 26487, 6868, 225, -53, 0, 16384, 22306, 7252, 131, -55>>,
        <<0, 26431, 24025, 22031, 223, -53, 0, 12288, 1317, 7702, 138, -55>>,
        <<0, 5825, 27575, 5109, 222, -53, 0, 12288, 7060, 6587, 145, -55>>,
        <<0, 18984, 6412, 21624, 220, -53, 0, 20480, 19850, 3934, 152, -55>>,
        <<0, 15916, 3038, 6027, 219, -53, 0, 4096, 30822, 32524, 158, -55>>,
        <<0, 2187, 20371, 23841, 217, -53, 0, 0, 22261, 26841, 165, -55>>,
        <<0, 12362, 16954, 9516, 216, -53, 0, 28672, 20899, 19684, 172, -55>>,
        <<0, 28542, 3045, 28578, 214, -53, 0, 28672, 18481, 11060, 179, -55>>,
        <<0, 15778, 25280, 15476, 213, -53, 0, 4096, 22733, 995, 186, -55>>,
        <<0, 22695, 32678, 2968, 212, -53, 0, 28672, 27189, 22275, 192, -55>>,
        <<0, 29579, 24082, 23811, 210, -53, 0, 0, 10733, 9381, 199, -55>>,
        <<0, 19239, 8534, 12458, 209, -53, 0, 16384, 1520, 27864, 205, -55>>,
        <<0, 29393, 10023, 1664, 208, -53, 0, 0, 14424, 12212, 212, -55>>,
        <<0, 15387, 18870, 24188, 206, -53, 0, 20480, 14339, 27973, 218, -55>>,
        <<0, 12688, 2959, 14484, 205, -53, 0, 16384, 6521, 9631, 225, -55>>,
        <<0, 20015, 25903, 5307, 204, -53, 0, 24576, 10896, 22743, 231, -55>>,
        <<0, 19317, 23880, 29419, 202, -53, 0, 16384, 26765, 1780, 238, -55>>,
        <<0, 18488, 15310, 21274, 201, -53, 0, 24576, 29087, 12294, 244, -55>>,
        <<0, 21222, 24270, 13628, 200, -53, 0, 4096, 47, 21543, 250, -55>>,
        <<0, 22429, 7679, 6474, 199, -53, 0, 14336, 9279, 14768, 128, -54>>,
        <<0, 124, 16280, 32570, 197, -53, 0, 20480, 7463, 18144, 131, -54>>,
        <<0, 17166, 13693, 26371, 196, -53, 0, 28672, 15628, 20910, 134, -54>>,
        <<0, 6139, 21574, 20638, 195, -53, 0, 20480, 26263, 23068, 137, -54>>,
        <<0, 6664, 22887, 15362, 194, -53, 0, 18432, 20038, 24629, 140, -54>>,
        <<0, 15957, 20682, 10535, 193, -53, 0, 0, 16793, 25599, 143, -54>>,
        <<0, 608, 11240, 6150, 192, -53, 0, 26624, 11974, 25983, 146, -54>>,
        <<0, 9001, 18369, 2197, 191, -53, 0, 10240, 4649, 25792, 149, -54>>,
        <<0, 13741, 28601, 31437, 189, -53, 0, 24576, 8326, 25032, 152, -54>>,
        <<0, 9666, 20270, 28329, 188, -53, 0, 6144, 23512, 23705, 155, -54>>,
        <<0, 1623, 25646, 25631, 187, -53, 0, 12288, 30558, 21823, 158, -54>>,
        <<0, 4876, 14252, 23339, 186, -53, 0, 24576, 18015, 19387, 161, -54>>>>]

\* x is in [1 - 2^-4, 1 + 0x1.09p-4)
LogNearOne(x) ==
    /\ FGe(x, Num(FALSE, <<0, 0, 0, 240>>, -53))
    /\ FLt(x, Num(FALSE, <<0, 0, 9216, 136>>, -52))

\* hi + (q * r3 + lo), where hi + lo is r - r * r / 2 from the split of r
\* into rhi + rlo
LogNearSum(r, r3, q, rhi, sq, hi) ==
    FAdd(hi, FFma(q, r3,
                  FFma(FMul(LogData.poly1[1], FSub(r, rhi)), FAdd(r, rhi),
                       FFma(sq, LogData.poly1[1], FSub(r, hi)))))

LogNearHi(r, r3, q, rhi, sq) ==
    LogNearSum(r, r3, q, rhi, sq, FFma(sq, LogData.poly1[1], r))

LogNearSquare(r, r3, q, rhi) == LogNearHi(r, r3, q, rhi, FMul(rhi, rhi))

\* rhi: r rounded to its top bits by adding and subtracting r * 2^27, the
\* float Num(FALSE, <<0, 0, 0, 128>>, -25)
LogNearSplit(r, r3, q) ==
    LogNearSquare(r, r3, q,
                  FFma(Num(TRUE, <<0, 0, 0, 128>>, -25), r,
                       FFma(r, Num(FALSE, <<0, 0, 0, 128>>, -25), r)))

LogNearPoly(r, r2, r3) ==
    LogNearSplit(r, r3,
        FFma(FFma(FFma(r3, LogData.poly1[11],
                       FFma(r2, LogData.poly1[10],
                            FFma(r, LogData.poly1[9], LogData.poly1[8]))),
                  r3,
                  FFma(r2, LogData.poly1[7],
                       FFma(r, LogData.poly1[6], LogData.poly1[5]))),
             r3,
             FFma(r2, LogData.poly1[4],
                  FFma(r, LogData.poly1[3], LogData.poly1[2]))))

LogNearCube(r, r2) == LogNearPoly(r, r2, FMul(r, r2))

\* log(x) for x # 1 near 1, with r = x - 1
LogNear(r) == LogNearCube(r, FMul(r, r))

\* lo + r2 * A0 + r * r2 * (A1 + r * A2 + r2 * (A3 + r * A4)) + hi
LogSum(r, r2, hi, lo) ==
    FAdd(FFma(FMul(r, r2),
              FFma(FFma(r, LogData.poly[5], LogData.poly[4]), r2,
                   FFma(r, LogData.poly[3], LogData.poly[2])),
              FFma(r2, LogData.poly[1], lo)),
         hi)

\* hi + lo = r + log(c) + k * ln 2
LogHiLo(kd, r, w, hi) ==
    LogSum(r, FMul(r, r), hi, FFma(kd, LogData.ln2lo, FAdd(FSub(w, hi), r)))

LogSplit(kd, r, w) == LogHiLo(kd, r, w, FAdd(r, w))

\* r = z / c - 1 and w = k * ln 2 + log(c)
LogOf(red) ==
    LogSplit(FOfInt(red.k),
             FFma(red.z, Double(LogData.tab[red.i + 1], 1), FNeg(One)),
             FFma(FOfInt(red.k), LogData.ln2hi, Double(LogData.tab[red.i + 1], 7)))

\* log(x) for a float x > 0
Log(x) ==
    IF x = One THEN Zero
    ELSE IF LogNearOne(x) THEN LogNear(FSub(x, One))
    ELSE LogOf(LogReduced(x.m, x.e + 52, LogOff))

(* log10 of the library *)

Log10Of2Lo == Num(FALSE, <<11062, 9186, 31692, 207>>, -94)
Log10Of2Hi == Num(FALSE, <<24576, 8510, 4173, 154>>, -54)
InvLn10 == Num(FALSE, <<25870, 10829, 11756, 222>>, -54)

\* ivln10 * log(x) + y * log10_2lo + y * log10_2hi, for the argument
\* x * 2^y with x in [1, 2), or in [0.5, 1) when the argument is below 1
Log10Sum(y, x) ==
    FAdd(FAdd(FMul(InvLn10, Log(x)), FMul(y, Log10Of2Lo)), FMul(y, Log10Of2Hi))

\* math.log10(x) for a float x > 0
Log10(x) ==
    Log10Sum(FOfInt(IF x.e + 52 < 0 THEN x.e + 53 ELSE x.e + 52),
             Num(FALSE, x.m, IF x.e + 52 < 0 THEN -53 ELSE -52))

(* pow of the library: exp(y * log(x)), with log(x) as hi + lo to about 68 *)
(* bits and the product y * log(x) as ehi + elo                            *)

\* the significand of OFF = 0x3fe6955500000000
PowOff == NShl(NOf(1480021), 32)

\* The data of the logarithm in pow: ln 2 in two parts; poly, the
\* coefficients A of log1p(r) - r for |r| < 1/256; tab, invc, logc and
\* logctail for each subinterval, which are 1/c and log(c) in two parts for
\* a c near its centre.
PowLogData ==
    [ln2hi |-> Num(FALSE, <<14336, 32244, 14603, 177>>, -53),
     ln2lo |-> Num(FALSE, <<26416, 10126, 19806, 247>>, -97),
     poly |-> <<Num(TRUE, <<0, 0, 0, 128>>, -53),
                Num(TRUE, <<21856, 10922, 21845, 170>>, -53),
                Num(FALSE, <<6, 0, 0, 128>>, -53),
                Num(FALSE, <<21838, 12978, 26214, 204>>, -53),
                Num(TRUE, <<9338, 10835, 21845, 170>>, -53),
                Num(TRUE, <<17897, 13968, 9582, 146>>, -52),
                Num(FALSE, <<16323, 5708, 174, 128>>, -52)>>,
     tab |->
      <<<<0, 0, 0, 0, 181, -52, 1, 18432, 25971, 12811, 177, -54, 0, 22144, 20590, 20624, 213, -100>>,
        <<0, 0, 0, 0, 180, -52, 1, 2048, 32432, 18166, 174, -54, 1, 30496, 12737, 5155, 229, -98>>,
        <<0, 0, 0, 0, 179, -52, 1, 22528, 11914, 23004, 171, -54, 1, 20589, 11116, 2707, 155, -97>>,
        <<0, 0, 0, 0, 178, -52, 1, 30720, 3675, 27318, 168, -54, 1, 26581, 15712, 5010, 180, -101>>,
        <<0, 0, 0, 0, 177, -52, 1, 30720, 10990, 31102, 165, -54, 1, 16096, 9810, 28070, 160, -99>>,
        <<0, 0, 0, 0, 176, -52, 1, 24576, 1080, 1583, 163, -54, 0, 1228, 4249, 24765, 158, -98>>,
        <<0, 0, 0, 0, 175, -52, 1, 10240, 3341, 4290, 160, -54, 0, 2874, 23300, 3023, 226, -102>>,
        <<0, 0, 0, 0, 174, -52, 1, 18432, 10962, 6449, 157, -54, 0, 5216, 3235, 18202, 133, -97>>,
        <<0, 0, 0, 0, 173, -52, 1, 0, 13617, 8054, 154, -54, 0, 146, 10635, 25911, 170, -97>>,
        <<0, 0, 0, 0, 172, -52, 1, 8192, 30146, 9098, 151, -54, 0, 11224, 13166, 27770, 179, -97>>,
        <<0, 0, 0, 0, 171, -52, 1, 2048, 10173, 9576, 148, -54, 0, 12351, 28063, 10322, 174, -98>>,
        <<0, 0, 0, 0, 171, -52, 1, 2048, 10173, 9576, 148, -54, 0, 12351, 28063, 10322, 174, -98>>,
        <<0, 0, 0, 0, 170, -52, 1, 30720, 30622, 9479, 145, -54, 1, 23158, 20647, 26768, 178, -98>>,
        <<0, 0, 0, 0, 169, -52, 1, 6144, 723, 8803, 142, -54, 1, 21508, 20942, 16113, 253, -98>>,
        <<0, 0, 0, 0, 168, -52, 1, 10240, 22359, 7538, 139, -54, 0, 10480, 26373, 32536, 248, -98>>,
        <<0, 0, 0, 0, 167, -52, 1, 18432, 29532, 5679, 136, -54, 1, 23142, 31242, 8979, 181, -97>>,
        <<0, 0, 0, 0, 166, -52, 1, 4096, 17639, 3219, 133, -54, 1, 782, 32232, 12217, 227, -99>>,
        <<0, 0, 0, 0, 165, -52, 1, 20480, 10601, 150, 130, -54, 1, 11647, 15848, 23266, 129, -100>>,
        <<0, 0, 0, 0, 165, -52, 1, 20480, 10601, 150, 130, -54, 1, 11647, 15848, 23266, 129, -100>>,
        <<0, 0, 0, 0, 164, -52, 1, 16384, 23228, 25697, 253, -55, 0, 15495, 22322, 23722, 234, -99>>,
        <<0, 0, 0, 0, 163, -52, 1, 24576, 6072, 17079, 247, -55, 0, 12068, 14605, 6878, 217, -97>>,
        <<0, 0, 0, 0, 162, -52, 1, 28672, 23637, 7197, 241, -55, 1, 32528, 10367, 15677, 185, -98>>,
        <<0, 0, 0, 0, 161, -52, 1, 16384, 22175, 28805, 234, -55, 0, 26651, 30612, 27206, 141, -97>>,
        <<0, 0, 0, 0, 160, -52, 1, 8192, 3893, 16351, 228, -55, 0, 1076, 20799, 25917, 187, -97>>,
        <<0, 0, 0, 0, 160, -52, 1, 8192, 3893, 16351, 228, -55, 0, 1076, 20799, 25917, 187, -97>>,
        <<0, 0, 0, 0, 159, -52, 1, 4096, 26715, 2585, 222, -55, 0, 14223, 25367, 15040, 202, -98>>,
        <<0, 0, 0, 0, 158, -52, 1, 16384, 7425, 20261, 215, -55, 0, 4198, 32667, 14732, 210, -104>>,
        <<0, 0, 0, 0, 157, -52, 1, 12288, 16325, 3824, 209, -55, 1, 16874, 14477, 12691, 172, -97>>,
        <<0, 0, 0, 0, 157, -52, 1, 12288, 16325, 3824, 209, -55, 1, 16874, 14477, 12691, 172, -97>>,
        <<0, 0, 0, 0, 156, -52, 1, 20480, 14824, 18794, 202, -55, 1, 21731, 2435, 18276, 214, -97>>,
        <<0, 0, 0, 0, 155, -52, 1, 20480, 19009, 32385, 195, -55, 0, 31241, 32695, 30461, 221, -97>>,
        <<0, 0, 0, 0, 154, -52, 1, 24576, 1057, 11812, 189, -55, 0, 19032, 25766, 28225, 222, -97>>,
        <<0, 0, 0, 0, 154, -52, 1, 24576, 1057, 11812, 189, -55, 0, 19032, 25766, 28225, 222, -97>>,
        <<0, 0, 0, 0, 153, -52, 1, 20480, 20019, 22591, 182, -55, 1, 25190, 18277, 4522, 135, -98>>,
        <<0, 0, 0, 0, 152, -52, 1, 4096, 24911, 31937, 175, -55, 1, 20537, 15904, 30990, 244, -98>>,
        <<0, 0, 0, 0, 152, -52, 1, 4096, 24911, 31937, 175, -55, 1, 20537, 15904, 30990, 244, -98>>,
        <<0, 0, 0, 0, 151, -52, 1, 12288, 18243, 7063, 169, -55, 1, 23439, 8206, 31278, 134, -97>>,
        <<0, 0, 0, 0, 150, -52, 1, 0, 22935, 13485, 162, -55, 0, 30780, 17002, 13061, 184, -98>>,
        <<0, 0, 0, 0, 150, -52, 1, 0, 22935, 13485, 162, -55, 0, 30780, 17002, 13061, 184, -98>>,
        <<0, 0, 0, 0, 149, -52, 1, 4096, 16445, 18416, 155, -55, 0, 21562, 6734, 25113, 139, -100>>,
        <<0, 0, 0, 0, 148, -52, 1, 28672, 28735, 21835, 148, -55, 1, 17416, 12003, 13504, 164, -97>>,
        <<0, 0, 0, 0, 147, -52, 1, 24576, 10846, 23723, 141, -55, 1, 9110, 12323, 656, 244, -97>>,
        <<0, 0, 0, 0, 147, -52, 1, 24576, 10846, 23723, 141, -55, 1, 9110, 12323, 656, 244, -97>>,
        <<0, 0, 0, 0, 146, -52, 1, 4096, 31137, 24057, 134, -55, 0, 23540, 4560, 9818, 211, -99>>,
        <<0, 0, 0, 0, 146, -52, 1, 4096, 31137, 24057, 134, -55, 0, 23540, 4560, 9818, 211, -99>>,
        <<0, 0, 0, 0, 145, -52, 1, 24576, 25527, 12868, 255, -56, 1, 13298, 14662, 21841, 171, -97>>,
        <<0, 0, 0, 0, 144, -52, 1, 0, 23638, 7197, 241, -56, 0, 60, 21984, 20656, 209, -97>>,
        <<0, 0, 0, 0, 144, -52, 1, 0, 23638, 7197, 241, -56, 0, 60, 21984, 20656, 209, -97>>,
        <<0, 0, 0, 0, 143, -52, 1, 16384, 7863, 31058, 226, -56, 1, 15878, 12479, 12637, 232, -98>>,
        <<0, 0, 0, 0, 142, -52, 1, 24576, 29845, 18868, 212, -56, 0, 10952, 20663, 25815, 169, -97>>,
        <<0, 0, 0, 0, 142, -52, 1, 24576, 29845, 18868, 212, -56, 0, 10952, 20663, 25815, 169, -97>>,
        <<0, 0, 0, 0, 141, -52, 1, 8192, 11363, 3351, 198, -56, 0, 22120, 6750, 28837, 155, -98>>,
        <<0, 0, 0, 0, 141, -52, 1, 8192, 11363, 3351, 198, -56, 0, 22120, 6750, 28837, 155, -98>>,
        <<0, 0, 0, 0, 140, -52, 1, 24576, 5578, 17226, 183, -56, 1, 29658, 4710, 23775, 180, -97>>,
        <<0, 0, 0, 0, 139, -52, 1, 8192, 32268, 27676, 168, -56, 0, 24151, 17292, 2413, 248, -98>>,
        <<0, 0, 0, 0, 139, -52, 1, 8192, 32268, 27676, 168, -56, 0, 24151, 17292, 2413, 248, -98>>,
        <<0, 0, 0, 0, 138, -52, 1, 24576, 11319, 1886, 154, -56, 0, 5087, 6642, 31595, 226, -97>>,
        <<0, 0, 0, 0, 138, -52, 1, 24576, 11319, 1886, 154, -56, 0, 5087, 6642, 31595, 226, -97>>,
        <<0, 0, 0, 0, 137, -52, 1, 0, 23879, 5339, 139, -56, 0, 8969, 27935, 29049, 163, -98>>,
        <<0, 0, 0, 0, 136, -52, 1, 0, 35, 10435, 248, -57, 0, 3729, 1645, 26234, 234, -97>>,
        <<0, 0, 0, 0, 136, -52, 1, 0, 35, 10435, 248, -57, 0, 3729, 1645, 26234, 234, -97>>,
        <<0, 0, 0, 0, 135, -52, 1, 0, 25139, 2933, 218, -57, 0, 28748, 19372, 2539, 228, -98>>,
        <<0, 0, 0, 0, 135, -52, 1, 0, 25139, 2933, 218, -57, 0, 28748, 19372, 2539, 228, -98>>,
        <<0, 0, 0, 0, 134, -52, 1, 16384, 27749, 20835, 187, -57, 1, 8686, 27109, 28952, 231, -97>>,
        <<0, 0, 0, 0, 134, -52, 1, 16384, 27749, 20835, 187, -57, 1, 8686, 27109, 28952, 231, -97>>,
        <<0, 0, 0, 0, 133, -52, 1, 16384, 29693, 31262, 156, -57, 0, 32426, 27213, 2783, 168, -100>>,
        <<0, 0, 0, 0, 133, -52, 1, 16384, 29693, 31262, 156, -57, 0, 32426, 27213, 2783, 168, -100>>,
        <<0, 0, 0, 0, 132, -52, 1, 0, 7408, 2668, 252, -58, 1, 2532, 30972, 153, 204, -97>>,
        <<0, 0, 0, 0, 132, -52, 1, 0, 7408, 2668, 252, -58, 1, 2532, 30972, 153, 204, -97>>,
        <<0, 0, 0, 0, 131, -52, 1, 0, 4011, 25708, 189, -58, 1, 9785, 10229, 13650, 196, -97>>,
        <<0, 0, 0, 0, 130, -52, 1, 0, 25080, 674, 254, -59, 1, 9884, 28071, 31219, 248, -102>>,
        <<0, 0, 0, 0, 130, -52, 1, 0, 25080, 674, 254, -59, 1, 9884, 28071, 31219, 248, -102>>,
        <<0, 0, 0, 0, 129, -52, 1, 0, 22048, 169, 255, -60, 1, 16612, 7092, 2300, 207, -98>>,
        <<0, 0, 0, 0, 129, -52, 1, 0, 22048, 169, 255, -60, 1, 16612, 7092, 2300, 207, -98>>,
        <<0, 0, 0, 0, 128, -52, 0, 0, 0, 0, 0, 0, 0, 0, 0, 0, 0, 0>>,
        <<0, 0, 0, 0, 128, -52, 0, 0, 0, 0, 0, 0, 0, 0, 0, 0, 0, 0>>,
        <<0, 0, 0, 0, 254, -53, 0, 0, 27410, 16469, 128, -59, 1, 11240, 13114, 7598, 134, -98>>,
        <<0, 0, 0, 0, 252, -53, 0, 0, 12583, 345, 129, -58, 1, 30674, 3525, 29036, 158, -97>>,
        <<0, 0, 0, 0, 250, -53, 0, 0, 20882, 9364, 194, -58, 1, 3124, 25780, 744, 213, -97>>,
        <<0, 0, 0, 0, 248, -53, 0, 16384, 5070, 1398, 130, -57, 0, 22355, 14819, 18177, 136, -99>>,
        <<0, 0, 0, 0, 246, -53, 0, 0, 10332, 6843, 163, -57, 1, 32040, 27515, 22989, 224, -97>>,
        <<0, 0, 0, 0, 244, -53, 0, 16384, 10559, 21160, 196, -57, 1, 9853, 8372, 26199, 203, -98>>,
        <<0, 0, 0, 0, 242, -53, 0, 16384, 7099, 11727, 230, -57, 1, 10247, 4016, 9161, 211, -98>>,
        <<0, 0, 0, 0, 241, -53, 0, 16384, 13, 10439, 247, -57, 1, 15227, 8082, 17657, 240, -99>>,
        <<0, 0, 0, 0, 239, -53, 0, 24576, 8844, 23791, 140, -56, 1, 7835, 11291, 18805, 169, -97>>,
        <<0, 0, 0, 0, 237, -53, 0, 24576, 20387, 30678, 157, -56, 0, 20183, 19382, 8570, 230, -97>>,
        <<0, 0, 0, 0, 235, -53, 0, 8192, 6959, 9577, 175, -56, 1, 7454, 30906, 9240, 227, -97>>,
        <<0, 0, 0, 0, 234, -53, 0, 16384, 5589, 844, 184, -56, 0, 27954, 21307, 31286, 224, -101>>,
        <<0, 0, 0, 0, 232, -53, 0, 16384, 15026, 19833, 201, -56, 0, 18394, 30074, 17776, 152, -97>>,
        <<0, 0, 0, 0, 230, -53, 0, 24576, 7002, 11042, 219, -56, 1, 26853, 22510, 16896, 156, -98>>,
        <<0, 0, 0, 0, 229, -53, 0, 16384, 888, 8544, 228, -56, 0, 11475, 3253, 6983, 178, -97>>,
        <<0, 0, 0, 0, 227, -53, 0, 8192, 1556, 7398, 246, -56, 1, 17888, 24524, 418, 238, -97>>,
        <<0, 0, 0, 0, 226, -53, 0, 24576, 29623, 8772, 255, -56, 1, 2813, 8002, 21337, 169, -97>>,
        <<0, 0, 0, 0, 224, -53, 0, 24576, 1103, 24122, 136, -55, 0, 2034, 7258, 15843, 143, -97>>,
        <<0, 0, 0, 0, 223, -53, 0, 28672, 31815, 10413, 141, -55, 0, 6452, 2161, 7737, 229, -97>>,
        <<0, 0, 0, 0, 221, -53, 0, 0, 6413, 17796, 150, -55, 0, 13473, 5891, 30131, 156, -99>>,
        <<0, 0, 0, 0, 220, -53, 0, 4096, 24619, 6130, 155, -55, 0, 29321, 18070, 16032, 177, -103>>,
        <<0, 0, 0, 0, 218, -53, 0, 12288, 1639, 17654, 164, -55, 0, 13944, 10747, 3557, 172, -97>>,
        <<0, 0, 0, 0, 217, -53, 0, 12288, 18755, 8087, 169, -55, 0, 32199, 19154, 20387, 177, -97>>,
        <<0, 0, 0, 0, 215, -53, 0, 4096, 32024, 23866, 178, -55, 0, 11896, 22648, 15916, 206, -98>>,
        <<0, 0, 0, 0, 214, -53, 0, 28672, 5866, 16458, 183, -55, 1, 8673, 19256, 17975, 168, -97>>,
        <<0, 0, 0, 0, 213, -53, 0, 20480, 2696, 9782, 188, -55, 1, 17157, 24866, 6209, 227, -98>>,
        <<0, 0, 0, 0, 211, -53, 0, 0, 22130, 31423, 197, -55, 1, 11473, 21970, 30034, 185, -99>>,
        <<0, 0, 0, 0, 210, -53, 0, 0, 14830, 26987, 202, -55, 0, 32623, 12609, 18593, 191, -99>>,
        <<0, 0, 0, 0, 208, -53, 0, 24576, 30997, 20404, 212, -55, 1, 8553, 8364, 18701, 195, -97>>,
        <<0, 0, 0, 0, 207, -53, 0, 20480, 11959, 18273, 217, -55, 1, 25002, 7513, 22069, 225, -99>>,
        <<0, 0, 0, 0, 206, -53, 0, 24576, 28791, 16924, 222, -55, 1, 4790, 12968, 12049, 234, -97>>,
        <<0, 0, 0, 0, 205, -53, 0, 4096, 3552, 16367, 227, -55, 1, 11218, 2860, 12747, 143, -100>>,
        <<0, 0, 0, 0, 203, -53, 0, 4096, 25001, 17654, 237, -55, 1, 12341, 28203, 31915, 215, -97>>,
        <<0, 0, 0, 0, 202, -53, 0, 4096, 32718, 19515, 242, -55, 0, 29744, 16515, 18589, 144, -103>>,
        <<0, 0, 0, 0, 201, -53, 0, 0, 18874, 22199, 247, -55, 1, 3601, 19319, 1109, 209, -103>>,
        <<0, 0, 0, 0, 200, -53, 0, 12288, 22887, 25713, 252, -55, 0, 24368, 5145, 12211, 222, -98>>,
        <<0, 0, 0, 0, 198, -53, 0, 22528, 16538, 17633, 131, -54, 0, 20113, 11738, 29548, 196, -100>>,
        <<0, 0, 0, 0, 197, -53, 0, 24576, 20162, 4277, 134, -54, 0, 27369, 11385, 25132, 184, -97>>,
        <<0, 0, 0, 0, 196, -53, 0, 26624, 1103, 24122, 136, -54, 1, 28700, 18251, 1081, 225, -97>>,
        <<0, 0, 0, 0, 195, -53, 0, 30720, 5977, 11635, 139, -54, 0, 5761, 28490, 27447, 220, -97>>,
        <<0, 0, 0, 0, 194, -53, 0, 26624, 18100, 32357, 141, -54, 0, 15799, 8847, 7093, 229, -97>>,
        <<0, 0, 0, 0, 193, -53, 0, 14336, 23069, 20757, 144, -54, 0, 15082, 29837, 8058, 212, -99>>,
        <<0, 0, 0, 0, 191, -53, 0, 4096, 31161, 31681, 149, -54, 0, 1268, 5280, 29673, 212, -97>>,
        <<0, 0, 0, 0, 190, -53, 0, 24576, 17318, 21447, 152, -54, 1, 15544, 9794, 2539, 199, -97>>,
        <<0, 0, 0, 0, 189, -53, 0, 4096, 28028, 11677, 155, -54, 0, 30664, 25058, 15158, 139, -98>>,
        <<0, 0, 0, 0, 188, -53, 0, 12288, 28262, 2377, 158, -54, 0, 15708, 27661, 27986, 193, -98>>,
        <<0, 0, 0, 0, 187, -53, 0, 26624, 18347, 26320, 160, -54, 0, 24733, 22817, 4315, 199, -99>>,
        <<0, 0, 0, 0, 186, -53, 0, 18432, 1251, 17975, 163, -54, 1, 22133, 4815, 7992, 249, -97>>,
        <<0, 0, 0, 0, 185, -53, 0, 12288, 15406, 10114, 166, -54, 1, 22692, 13845, 548, 241, -97>>,
        <<0, 0, 0, 0, 184, -53, 0, 8192, 3697, 2744, 169, -54, 0, 18265, 713, 31170, 245, -97>>,
        <<0, 0, 0, 0, 183, -53, 0, 20480, 10129, 28637, 171, -54, 0, 16623, 23738, 14263, 253, -98>>,
        <<0, 0, 0, 0, 182, -53, 0, 24576, 16050, 22263, 174, -54, 1, 26076, 4424, 11432, 208, -99>>>>]

\* the logarithm as the two floats lh and (hi - lh) + lo
PowLogParts(hi, lo, lh) == [hi |-> lh, lo |-> FAdd(FSub(hi, lh), lo)]

PowLogSum(hi, lo) == PowLogParts(hi, lo, FAdd(hi, lo))

\* lo = lo1 + lo2 + lo3 + lo4 + ar3 * p, where p is the polynomial in r and
\* lo2, lo3 and lo4 are the rounding errors of t2, ar2 and hi
PowLogLo(r, t1, lo1, ar, t2, ar2, hi) ==
    PowLogSum(hi,
        FFma(FMul(r, ar2),
             FFma(ar2,
                  FFma(FFma(r, PowLogData.poly[7], PowLogData.poly[6]), ar2,
                       FFma(r, PowLogData.poly[5], PowLogData.poly[4])),
                  FFma(r, PowLogData.poly[3], PowLogData.poly[2])),
             FAdd(FAdd(FAdd(lo1, FAdd(FSub(t1, t2), r)), FFma(ar, r, FNeg(ar2))),
                  FAdd(FSub(t2, hi), ar2))))

PowLogHi(r, t1, lo1, ar, t2, ar2) ==
    PowLogLo(r, t1, lo1, ar, t2, ar2, FAdd(t2, ar2))

PowLogSquare(r, t1, lo1, ar, t2) == PowLogHi(r, t1, lo1, ar, t2, FMul(r, ar))

\* ar = A0 * r and t2 = t1 + r
PowLogTerms(r, t1, lo1) ==
    PowLogSquare(r, t1, lo1, FMul(r, PowLogData.poly[1]), FAdd(r, t1))

\* r = z / c - 1, t1 = k * ln 2 + log(c), lo1 = k * Ln2lo + logctail
PowLogOf(red) ==
    PowLogTerms(FFma(red.z, Double(PowLogData.tab[red.i + 1], 1), FNeg(One)),
                FFma(FOfInt(red.k), PowLogData.ln2hi,
                     Double(PowLogData.tab[red.i + 1], 7)),
                FFma(FOfInt(red.k), PowLogData.ln2lo,
                     Double(PowLogData.tab[red.i + 1], 13)))

\* log(x) in two floats for a float x > 0
PowLog(x) == PowLogOf(LogReduced(x.m, x.e + 52, PowOff))

\* The data of exp: N / ln 2 for N = 128, the shift 0x1.8p52 that rounds
\* to an integer, -ln 2 / N in two parts; poly, the coefficients C2 to C5
\* of exp(r) - 1 - r; tab, for each j < 128, the tail of 2^(j/128) and
\* 2^(j/128) itself.  (The library keeps the bits of the second less
\* j << 45 and adds ki << 45 to them, which gives 2^(j/128) with the
\* quotient of ki by 128 added to its exponent.)
ExpData ==
    [invln2N |-> Num(FALSE, <<766, 19031, 21789, 184>>, -45),
     shift |-> Num(FALSE, <<0, 0, 0, 192>>, 0),
     negln2hiN |-> Num(TRUE, <<0, 32244, 14603, 177>>, -60),
     negln2loN |-> Num(TRUE, <<15162, 31036, 24170, 231>>, -99),
     poly |-> <<Num(FALSE, <<32189, 32767, 32767, 255>>, -54),
                Num(FALSE, <<21564, 10922, 21845, 170>>, -55),
                Num(FALSE, <<11153, 7726, 21847, 170>>, -57),
                Num(FALSE, <<20503, 20297, 17477, 136>>, -59)>>,
     tab |->
      <<<<0, 0, 0, 0, 0, 0, 0, 0, 0, 0, 128, -52>>,
        <<0, 16238, 13585, 27964, 217, -106, 0, 13109, 21494, 22774, 128, -52>>,
        <<1, 23645, 14769, 78, 139, -108, 0, 97, 31983, 12904, 129, -52>>,
        <<1, 26321, 8462, 31208, 130, -106, 0, 32645, 20700, 3159, 130, -52>>,
        <<0, 30227, 27343, 18760, 230, -107, 0, 1396, 9771, 26307, 130, -52>>,
        <<1, 3834, 18419, 14848, 222, -107, 0, 30430, 21435, 16812, 131, -52>>,
        <<0, 18529, 17357, 23865, 135, -109, 0, 7112, 12523, 7444, 132, -52>>,
        <<0, 21401, 13927, 3985, 133, -106, 0, 29571, 5517, 30971, 132, -52>>,
        <<0, 31597, 15110, 27289, 188, -106, 0, 2319, 23027, 21857, 133, -52>>,
        <<0, 28668, 9723, 21610, 245, -107, 0, 18423, 22244, 12872, 134, -52>>,
        <<0, 7377, 24671, 30965, 245, -112, 0, 20898, 26023, 4016, 135, -52>>,
        <<1, 28171, 4896, 3282, 208, -109, 0, 21275, 24573, 28058, 135, -52>>,
        <<1, 15630, 21599, 22856, 170, -106, 0, 23377, 8228, 19463, 136, -52>>,
        <<1, 27221, 6301, 958, 132, -110, 0, 12748, 216, 10999, 137, -52>>,
        <<1, 29718, 29611, 9358, 142, -106, 0, 11744, 23890, 2666, 138, -52>>,
        <<0, 21935, 21176, 20367, 134, -107, 0, 3665, 4427, 27235, 138, -52>>,
        <<1, 4936, 21835, 27735, 128, -107, 0, 20859, 30970, 19168, 139, -52>>,
        <<1, 12861, 11196, 32705, 248, -107, 0, 3562, 28953, 11236, 140, -52>>,
        <<0, 21439, 32294, 9776, 220, -107, 0, 19317, 22239, 3439, 141, -52>>,
        <<1, 27430, 27683, 26225, 182, -106, 0, 23764, 2056, 28546, 141, -52>>,
        <<0, 12128, 31860, 13276, 215, -106, 0, 14762, 25297, 21020, 142, -52>>,
        <<1, 14493, 5900, 7691, 255, -107, 0, 22813, 17913, 13632, 143, -52>>,
        <<0, 17293, 2381, 15621, 211, -107, 0, 3286, 4293, 6382, 144, -52>>,
        <<0, 1149, 25032, 26646, 131, -107, 0, 23702, 8955, 32038, 144, -52>>,
        <<0, 10388, 18257, 15351, 180, -106, 0, 25144, 23786, 25065, 145, -52>>,
        <<0, 18557, 25832, 30819, 186, -107, 0, 9791, 8037, 18233, 146, -52>>,
        <<0, 26610, 12351, 7342, 130, -107, 0, 31965, 19396, 11541, 147, -52>>,
        <<1, 2142, 32482, 25068, 181, -106, 0, 25473, 17386, 4991, 148, -52>>,
        <<0, 11057, 23059, 24453, 151, -107, 0, 24289, 27199, 31351, 148, -52>>,
        <<1, 16378, 13535, 1644, 233, -112, 0, 22928, 8629, 25087, 149, -52>>,
        <<0, 2740, 25624, 24073, 217, -107, 0, 779, 19912, 18966, 150, -52>>,
        <<0, 19343, 5021, 21066, 240, -109, 0, 12118, 21116, 12990, 151, -52>>,
        <<0, 11190, 7009, 13781, 154, -107, 0, 14101, 5219, 7160, 152, -52>>,
        <<0, 29772, 17752, 2055, 178, -107, 0, 22577, 30873, 1475, 153, -52>>,
        <<0, 30794, 15271, 29925, 254, -107, 0, 5887, 25800, 28706, 153, -52>>,
        <<1, 23300, 30492, 3584, 181, -107, 0, 8177, 16165, 23317, 154, -52>>,
        <<1, 20584, 6294, 11191, 146, -106, 0, 10699, 28277, 18076, 155, -52>>,
        <<1, 11662, 13986, 8160, 200, -106, 0, 22630, 23051, 12985, 156, -52>>,
        <<1, 14034, 32040, 18336, 142, -108, 0, 8183, 27083, 8044, 157, -52>>,
        <<1, 6933, 26524, 25702, 200, -106, 0, 10469, 1575, 3255, 158, -52>>,
        <<0, 19565, 20052, 32034, 172, -107, 0, 13346, 6180, 31385, 158, -52>>,
        <<1, 27018, 29776, 18817, 152, -106, 0, 28, 2393, 26900, 159, -52>>,
        <<1, 2395, 4143, 7741, 197, -110, 0, 11818, 17390, 22568, 160, -52>>,
        <<1, 6683, 20115, 12909, 225, -108, 0, 10391, 12961, 18391, 161, -52>>,
        <<0, 11281, 16773, 4021, 155, -111, 0, 2349, 16579, 14369, 162, -52>>,
        <<0, 25839, 30220, 6180, 179, -106, 0, 87, 23098, 10503, 163, -52>>,
        <<0, 889, 13634, 13191, 246, -109, 0, 15568, 27522, 6794, 164, -52>>,
        <<0, 4656, 32286, 32312, 159, -106, 0, 21470, 25007, 3243, 165, -52>>,
        <<0, 12208, 30453, 17210, 180, -108, 0, 10791, 10860, 32619, 165, -52>>,
        <<0, 24695, 22185, 30455, 152, -106, 0, 23821, 13307, 29386, 166, -52>>,
        <<1, 9102, 227, 20688, 252, -107, 0, 11431, 27962, 26313, 167, -52>>,
        <<1, 9033, 14631, 31539, 190, -107, 0, 26178, 17822, 23402, 168, -52>>,
        <<1, 14431, 31262, 31514, 198, -108, 0, 20354, 11578, 20653, 169, -52>>,
        <<1, 23798, 22774, 18715, 176, -107, 0, 4623, 5307, 18067, 170, -52>>,
        <<0, 22414, 12795, 21524, 153, -106, 0, 10202, 28010, 15644, 171, -52>>,
        <<0, 6917, 24341, 25308, 220, -108, 0, 18429, 10543, 13387, 172, -52>>,
        <<0, 21513, 17464, 3975, 131, -106, 0, 21545, 14992, 11295, 173, -52>>,
        <<0, 18154, 8243, 7701, 166, -112, 0, 18103, 5298, 9370, 174, -52>>,
        <<0, 16437, 22217, 19352, 161, -106, 0, 8520, 11098, 7612, 175, -52>>,
        <<1, 30367, 17202, 4393, 231, -107, 0, 23561, 29421, 6022, 176, -52>>,
        <<1, 19880, 30686, 20244, 225, -107, 0, 21893, 24692, 4602, 177, -52>>,
        <<1, 27054, 4695, 19938, 162, -107, 0, 17184, 27033, 3352, 178, -52>>,
        <<1, 22616, 28844, 15221, 158, -106, 0, 8741, 1194, 2274, 179, -52>>,
        <<0, 6500, 252, 17066, 184, -110, 0, 10611, 10393, 1367, 180, -52>>,
        <<1, 8744, 32444, 20414, 157, -106, 0, 15309, 19710, 633, 181, -52>>,
        <<1, 14722, 3689, 19126, 208, -109, 0, 23231, 27159, 73, 182, -52>>,
        <<1, 10734, 28891, 8126, 155, -109, 0, 6703, 30922, 32456, 182, -52>>,
        <<1, 2129, 10689, 28917, 134, -107, 0, 5252, 29347, 32247, 183, -52>>,
        <<1, 16079, 31924, 32145, 192, -108, 0, 24436, 20952, 32215, 184, -52>>,
        <<1, 32176, 278, 14635, 183, -107, 0, 372, 4427, 32361, 185, -52>>,
        <<1, 26250, 15531, 25800, 176, -107, 0, 26569, 11396, 32685, 186, -52>>,
        <<0, 21715, 15379, 29485, 132, -106, 0, 23871, 8124, 421, 188, -52>>,
        <<1, 9501, 29339, 19314, 217, -108, 0, 391, 26582, 1105, 189, -52>>,
        <<0, 16491, 10447, 13301, 167, -106, 0, 16690, 609, 1972, 190, -52>>,
        <<0, 27733, 22444, 12166, 175, -109, 0, 20066, 28062, 3020, 191, -52>>,
        <<1, 20290, 24423, 1812, 197, -107, 0, 6674, 10364, 4253, 192, -52>>,
        <<1, 14132, 25206, 9947, 155, -106, 0, 19987, 12953, 5670, 193, -52>>,
        <<1, 32542, 29747, 31248, 130, -107, 0, 18349, 3143, 7273, 194, -52>>,
        <<1, 22382, 12516, 20803, 166, -106, 0, 4845, 13961, 9062, 195, -52>>,
        <<0, 2560, 13853, 13725, 133, -106, 0, 26265, 13076, 11039, 196, -52>>,
        <<0, 27316, 993, 23743, 237, -107, 0, 8411, 1109, 13205, 197, -52>>,
        <<1, 26623, 14731, 22914, 173, -109, 0, 17548, 11626, 15560, 198, -52>>,
        <<0, 24388, 13286, 23053, 223, -108, 0, 30518, 12842, 18106, 199, -52>>,
        <<1, 15747, 20028, 9342, 152, -106, 0, 32710, 5923, 20844, 200, -52>>,
        <<1, 7721, 5848, 9954, 237, -110, 0, 17893, 24987, 23774, 201, -52>>,
        <<1, 14681, 31009, 4069, 225, -109, 0, 21007, 6032, 26899, 202, -52>>,
        <<1, 31146, 17897, 3340, 146, -106, 0, 20048, 16316, 30218, 203, -52>>,
        <<1, 3659, 11981, 10675, 174, -107, 0, 1978, 24980, 965, 205, -52>>,
        <<0, 20007, 22307, 16368, 141, -108, 0, 28816, 1351, 4678, 206, -52>>,
        <<0, 29627, 16916, 18647, 238, -109, 0, 8995, 13254, 8588, 207, -52>>,
        <<1, 8803, 17604, 5136, 190, -107, 0, 25957, 30395, 12697, 208, -52>>,
        <<0, 12757, 18372, 29211, 216, -107, 0, 11571, 22676, 17007, 209, -52>>,
        <<1, 15125, 10105, 28487, 141, -106, 0, 9565, 25724, 21518, 210, -52>>,
        <<0, 12754, 14812, 12486, 134, -106, 0, 13144, 9825, 26232, 211, -52>>,
        <<0, 23219, 23782, 9745, 163, -107, 0, 32191, 10995, 31149, 212, -52>>,
        <<1, 7604, 12061, 32566, 150, -107, 0, 29562, 32679, 3502, 214, -52>>,
        <<0, 13191, 9622, 27102, 224, -107, 0, 21421, 12981, 8830, 215, -52>>,
        <<1, 23034, 5539, 28221, 131, -106, 0, 13926, 21275, 14364, 216, -52>>,
        <<1, 11962, 11705, 3941, 174, -110, 0, 5627, 28830, 20106, 217, -52>>,
        <<1, 30272, 31565, 4152, 133, -106, 0, 22842, 7114, 26058, 218, -52>>,
        <<1, 4916, 29019, 23504, 198, -109, 0, 24135, 26102, 32219, 219, -52>>,
        <<1, 2613, 22193, 15241, 143, -106, 0, 1610, 24898, 5824, 221, -52>>,
        <<0, 24013, 5311, 32604, 167, -108, 0, 16850, 8343, 12410, 222, -52>>,
        <<1, 6316, 29989, 30703, 141, -106, 0, 7689, 14254, 19209, 223, -52>>,
        <<0, 3251, 24926, 15032, 155, -108, 0, 21148, 15114, 26223, 224, -52>>,
        <<0, 32148, 14655, 3273, 247, -107, 0, 20602, 16383, 685, 226, -52>>,
        <<0, 22956, 8722, 575, 167, -107, 0, 20811, 23727, 8132, 227, -52>>,
        <<0, 6759, 28828, 14012, 158, -109, 0, 26549, 10253, 15798, 228, -52>>,
        <<0, 6504, 22820, 11441, 187, -109, 0, 4201, 14815, 23683, 229, -52>>,
        <<1, 13778, 1945, 10338, 132, -107, 0, 17402, 10939, 31789, 230, -52>>,
        <<1, 31343, 32767, 13684, 253, -107, 0, 2428, 5135, 7349, 232, -52>>,
        <<1, 10569, 28907, 14008, 128, -106, 0, 2546, 4123, 15900, 233, -52>>,
        <<0, 1959, 19578, 3606, 165, -108, 0, 9351, 14839, 24675, 234, -52>>,
        <<1, 8719, 16512, 18040, 148, -107, 0, 920, 11667, 908, 236, -52>>,
        <<0, 4780, 11139, 26947, 242, -107, 0, 12933, 1974, 10136, 237, -52>>,
        <<0, 27467, 22530, 26982, 161, -107, 0, 13408, 26115, 19591, 238, -52>>,
        <<1, 15903, 3944, 21636, 150, -107, 0, 7007, 26359, 29276, 239, -52>>,
        <<1, 3529, 30350, 10980, 201, -107, 0, 8489, 10731, 6424, 241, -52>>,
        <<0, 2259, 16501, 22545, 165, -108, 0, 16374, 20246, 16571, 242, -52>>,
        <<0, 29297, 9018, 6065, 158, -107, 0, 19587, 30606, 26951, 243, -52>>,
        <<1, 4592, 8103, 23626, 255, -107, 0, 4314, 17737, 4798, 245, -52>>,
        <<1, 29821, 17478, 14947, 237, -107, 0, 26609, 23324, 15648, 246, -52>>,
        <<0, 8200, 852, 3825, 246, -107, 0, 23079, 23746, 26735, 247, -52>>,
        <<0, 27442, 1875, 11859, 161, -107, 0, 14999, 28375, 5292, 249, -52>>,
        <<0, 1518, 25507, 4772, 211, -107, 0, 17728, 14044, 16857, 250, -52>>,
        <<1, 25581, 18551, 24299, 241, -107, 0, 15892, 23353, 28662, 251, -52>>,
        <<0, 19869, 6947, 9453, 188, -108, 0, 4312, 829, 7942, 253, -52>>,
        <<0, 19593, 705, 5893, 152, -110, 0, 29169, 22302, 20232, 254, -52>>>>]

\* the integer in kd = n + shift
ExpInt(kd) ==
    IF NCmp(kd.m, ExpData.shift.m) >= 0 THEN NToInt(NSub(kd.m, ExpData.shift.m))
    ELSE -NToInt(NSub(ExpData.shift.m, kd.m))

\* the row of the table for n
ExpRow(n) == ExpData.tab[(n % 128) + 1]

\* 2^(n/128) from the table
ExpScale(n) ==
    Num(FALSE, Double(ExpRow(n), 7).m, Double(ExpRow(n), 7).e + (n \div 128))

\* scale + scale * tmp for
\* tmp = tail + r + r2 * (C2 + r * C3) + r2 * r2 * (C4 + r * C5)
ExpPoly(r, r2, tail, scale) ==
    FFma(FFma(FFma(r, ExpData.poly[4], ExpData.poly[3]), FMul(r2, r2),
              FFma(FFma(r, ExpData.poly[2], ExpData.poly[1]), r2,
                   FAdd(r, tail))),
         scale, scale)

ExpSquare(r, n) == ExpPoly(r, FMul(r, r), Double(ExpRow(n), 1), ExpScale(n))

\* r = x - kd * ln2 / N, then r += xtail, for kd = round(x * N / ln2)
ExpReduced(x, xtail, kd) ==
    ExpSquare(FAdd(xtail, FFma(FSub(kd, ExpData.shift), ExpData.negln2loN,
                               FFma(FSub(kd, ExpData.shift), ExpData.negln2hiN, x))),
              ExpInt(kd))

\* exp(x + xtail) for 2^-54 <= |x| < 512; a smaller x gives 1 + x
ExpOf(x, xtail) ==
    IF x.m = <<>> \/ x.e + 52 < -54 THEN FAdd(One, x)
    ELSE ExpReduced(x, xtail, FFma(x, ExpData.invln2N, ExpData.shift))

\* ehi = y * hi and elo = y * lo + fma(y, hi, -ehi)
PowExp(y, l, ehi) == ExpOf(ehi, FFma(y, l.lo, FFma(l.hi, y, FNeg(ehi))))

PowOfLog(y, l) == PowExp(y, l, FMul(y, l.hi))

\* x ** y for floats x >= 0 and y > 0 with |y * log(x)| < 512: the
\* interpreter answers for x = 0 and x = 1 itself and calls pow for the rest
Pow(x, y) ==
    IF x.m = <<>> THEN Zero
    ELSE IF x = One THEN One
    ELSE PowOfLog(y, PowLog(x))

---------------------------------------------------------------------------
(* Pricing constants *)

PRICE_PER_VIDEO_MINUTE_TRANSCODE == Dec(75, 4)
PRICE_PER_1000_CHARS_AI == Dec(9, 2)
PRICE_PER_GB_STORAGE == Dec(15, 3)
PRICE_PER_MILLION_READ_OPS == Dec(36, 2)
AD_IMPRESSION_THRESHOLD == 2000000

---------------------------------------------------------------------------
(* Inputs.  mau, dau_percent, upload_percent and video_length_sec are ints; *)
(* sub_price, sub_percent, ad_rpm and data_consumption_gb are floats,       *)
(* written <<n, e>> for the float literal n * 10^-e.                        *)

\* 9300000 is a value of the slider at which math.log10 of the library is
\* one unit in the last place off the nearest float
MauValues ==
    {-2, -1, 0, 1, 99999, 100000, 1999999, 2000000, 9300000, 20000000}
ConcMauValues == {-1, 0, 1, 100000, 2000000}
DauPercentValues == {20}
UploadPercentValues == {5}
VideoLengthValues == {-30, 0, 5, 30, 120}
SubPriceValues == {<<799, 2>>}
SubPercentValues == {<<200, 2>>}
AdRpmValues == {<<0, 2>>, <<10, 2>>}
DataConsumptionValues == {<<146484375, 10>>, <<7, 1>>}

Inputs ==
    [mau : MauValues, dau_percent : DauPercentValues,
     upload_percent : UploadPercentValues, video_length_sec : VideoLengthValues,
     sub_price : SubPriceValues, sub_percent : SubPercentValues,
     ad_rpm : AdRpmValues, data_consumption_gb : DataConsumptionValues]

\* the inputs of the concurrent calls: they differ in mau only
ConcInputs == {a \in Inputs : /\ a.mau \in ConcMauValues
                               /\ a.video_length_sec = 30
                               /\ a.data_consumption_gb = <<7, 1>>
                               /\ a.ad_rpm = <<10, 2>>}

\* the values of the video_length_sec slider
SliderVideoLengths == {5 * k : k \in 1..24}

\* the float a float argument denotes
FloatOf(lit) == Dec(lit[1], lit[2])

---------------------------------------------------------------------------
(* dict: a sequence of <<key, value>> in insertion order *)

DictHas(d, k) == \E i \in 1..Len(d) : d[i][1] = k

DictGet(d, k) == d[CHOOSE i \in 1..Len(d) : d[i][1] = k][2]

\* d[k] = v
DictSet(d, k, v) ==
    IF DictHas(d, k)
    THEN [i \in 1..Len(d) |-> IF d[i][1] = k THEN <<k, v>> ELSE d[i]]
    ELSE Append(d, <<k, v>>)

\* d.values()
DictValues(d) == [i \in 1..Len(d) |-> d[i][2]]

(* sum(vs) for floats vs.  The interpreter that runs the program is not    *)
(* fixed by the source, and sum() of floats depends on it: CPython up to   *)
(* 3.11 adds the values to the start 0 from left to right; CPython 3.12    *)
(* and later adds the start 0 and the first value and then every further   *)
(* value with Neumaier's compensation, which keeps in c the rounding       *)
(* errors of the additions and adds c to the sum at the end.  The two      *)
(* results can differ in the last place.  compensated says which of the    *)
(* two the interpreter of a run does.                                      *)

\* 0 + vs[1] + ... + vs[n], left to right
RECURSIVE SumTo(_, _)
SumTo(vs, n) == IF n = 0 THEN Zero ELSE FAdd(SumTo(vs, n - 1), vs[n])

\* t = f + x; c += (f - t) + x when |f| >= |x|, else c += (x - t) + f
NeumaierAdd(f, c, x, t) ==
    [f |-> t,
     c |-> FAdd(c, IF FCmpAbs(f, x) >= 0 THEN FAdd(FSub(f, t), x)
                   ELSE FAdd(FSub(x, t), f))]

NeumaierStep(s, x) == NeumaierAdd(s.f, s.c, x, FAdd(s.f, x))

\* the sum f and the compensation c after the first n values, n >= 1
RECURSIVE NeumaierTo(_, _)
NeumaierTo(vs, n) ==
    IF n = 1 THEN [f |-> FAdd(Zero, vs[1]), c |-> Zero]
    ELSE NeumaierStep(NeumaierTo(vs, n - 1), vs[n])

\* the compensation is added when it is not zero
NeumaierEnd(s) == IF s.c.m # <<>> THEN FAdd(s.f, s.c) ELSE s.f

\* a sum that stops one value short
SumButLast(vs, compensated) ==
    IF compensated THEN NeumaierEnd(NeumaierTo(vs, Len(vs) - 1))
    ELSE SumTo(vs, Len(vs) - 1)

\* sum(vs)
PySum(vs, compensated) ==
    IF vs = <<>> THEN Zero
    ELSE IF compensated THEN NeumaierEnd(NeumaierTo(vs, Len(vs)))
    ELSE SumTo(vs, Len(vs))

CostKeys ==
    <<"media_processing", "storage_delivery", "database",
      "compute_recommendation", "devops", "total">>

---------------------------------------------------------------------------
(* calculate_financials *)

\* the branch `if mau == 0`
IsZeroMau(mau) == mau = 0

\* costs that charge a base fee of 50 for every key
BaseFeeCosts == [i \in 1..Len(CostKeys) |-> <<CostKeys[i], FOfInt(50)>>]

\* {key: 0 for key in [...]}
ZeroCosts == [i \in 1..Len(CostKeys) |-> <<CostKeys[i], Zero>>]

\* the argument without the + 1
LogArgOfMau(mau) == mau

\* the argument of math.log10 in scale_factor
LogArg(mau) == mau + 1

\* math.log10 raises ValueError for an argument <= 0
CostsRaise(a) == ~IsZeroMau(a.mau) /\ LogArg(a.mau) <= 0

\* the quotient the other way up
InverseScaleFactor(mau) == FDiv(Log10(FOfInt(100000)), Log10(FOfInt(LogArg(mau))))

scale_factor(mau) == FDiv(Log10(FOfInt(LogArg(mau))), Log10(FOfInt(100000)))

dau(a) == FMul(FOfInt(a.mau), FDiv(FOfInt(a.dau_percent), FOfInt(100)))

videos_per_month(a) ==
    FMul(FMul(dau(a), FDiv(FOfInt(a.upload_percent), FOfInt(100))), FOfInt(30))

chars_per_video(a) == FMul(FDiv(FOfInt(a.video_length_sec), FOfInt(30)), FOfInt(450))

num_renditions == 5

transcode_cost(a) ==
    FMul(FMul(FMul(videos_per_month(a), FDiv(FOfInt(a.video_length_sec), FOfInt(60))),
              FOfInt(num_renditions)),
         PRICE_PER_VIDEO_MINUTE_TRANSCODE)

ai_cost(a) ==
    FMul(FDiv(FMul(videos_per_month(a), FMul(chars_per_video(a), FOfInt(2))),
              FOfInt(1000)),
         PRICE_PER_1000_CHARS_AI)

\* line 32
MediaProcessing(d, a) == DictSet(d, "media_processing", FAdd(transcode_cost(a), ai_cost(a)))

total_videos_stored(a) == FMul(videos_per_month(a), FOfInt(12))

total_gb_stored(a) == FDiv(FMul(total_videos_stored(a), FOfInt(75)), FOfInt(1024))

storage_cost(a) == FMul(total_gb_stored(a), PRICE_PER_GB_STORAGE)

total_gb_delivered(a) == FMul(FOfInt(a.mau), FloatOf(a.data_consumption_gb))

read_ops_millions(a) == FDiv(total_gb_delivered(a), FOfInt(10))

read_ops_cost(a) == FMul(read_ops_millions(a), PRICE_PER_MILLION_READ_OPS)

\* line 42
StorageDelivery(d, a) == DictSet(d, "storage_delivery", FAdd(storage_cost(a), read_ops_cost(a)))

\* lines 45-47, for the scale factor sf
Scaled(d, sf) ==
    DictSet(DictSet(DictSet(d, "database", FMul(FOfInt(2550), Pow(sf, Dec(15, 1)))),
                    "compute_recommendation", FMul(FOfInt(3250), Pow(sf, Dec(18, 1)))),
            "devops", FMul(FOfInt(50), sf))

\* line 48: costs["total"] = sum(costs.values())
WithTotal(d, compensated) == DictSet(d, "total", PySum(DictValues(d), compensated))

\* lines 24-42: the two costs stored before math.log10 is called
CostsBeforeScale(d, a) == StorageDelivery(MediaProcessing(d, a), a)

\* the else branch of the cost calculation, writing into the dict d
ComputedCostsInto(d, a, compensated) ==
    WithTotal(Scaled(CostsBeforeScale(d, a), scale_factor(a.mau)), compensated)

\* the else branch from the empty dict of line 20
ComputedCosts(a, compensated) == ComputedCostsInto(<<>>, a, compensated)

\* the costs of a call that does not raise
Costs(a, compensated) ==
    IF IsZeroMau(a.mau) THEN ZeroCosts ELSE ComputedCosts(a, compensated)

mb_per_video(video_length_sec) ==
    FMul(FDiv(FOfInt(video_length_sec), FOfInt(30)), FOfInt(15))

gb_per_video(video_length_sec) == FDiv(mb_per_video(video_length_sec), FOfInt(1024))

\* a guard that lets zero through
NonNegativeGuard(gb) == FGe(gb, Zero)

\* the guard of the division: `if gb_per_video > 0`
DivisionGuard(gb) == FGt(gb, Zero)

\* a float division by zero raises ZeroDivisionError
DivisionRaises(gb) == DivisionGuard(gb) /\ gb.m = <<>>

RevenueRaises(a) == DivisionRaises(gb_per_video(a.video_length_sec))

\* data_consumption_gb / gb_per_video if gb_per_video > 0 else 0
GuardedQuotient(data, gb) == IF DivisionGuard(gb) THEN FDiv(data, gb) ELSE Zero

views_per_user(a) ==
    GuardedQuotient(FloatOf(a.data_consumption_gb), gb_per_video(a.video_length_sec))

total_monthly_impressions(a) == FMul(FOfInt(a.mau), views_per_user(a))

\* the test with > in place of >=
AdEligibleAbove(impressions) == FGt(impressions, FOfInt(AD_IMPRESSION_THRESHOLD))

\* the test `total_monthly_impressions >= AD_IMPRESSION_THRESHOLD`
AdEligible(impressions) == FGe(impressions, FOfInt(AD_IMPRESSION_THRESHOLD))

\* A str is modelled by the sequence of the code points of its characters
\* (ord of each), which gives the characters outside ASCII their place.

RECURSIVE Str(_)
\* str(n) for an int n >= 0
Str(n) == IF n < 10 THEN <<48 + n>> ELSE Append(Str(n \div 10), 48 + (n % 10))

\* the three digits of r < 1000
Digits3(r) == <<48 + (r \div 100), 48 + ((r \div 10) % 10), 48 + (r % 10)>>

RECURSIVE Commas(_)
\* f"{n:,.0f}" for an int n >= 0: the digits in groups of three with a
\* comma (code point 44) between the groups
Commas(n) ==
    IF n < 1000 THEN Str(n)
    ELSE Commas(n \div 1000) \o <<44>> \o Digits3(n % 1000)

\* "✅ Platform is eligible for AdSense for Video."
EligibleMessage ==
    <<9989, 32, 80, 108, 97, 116, 102, 111, 114, 109, 32, 105, 115, 32,
      101, 108, 105, 103, 105, 98, 108, 101, 32, 102, 111, 114, 32, 65,
      100, 83, 101, 110, 115, 101, 32, 102, 111, 114, 32, 86, 105, 100,
      101, 111, 46>>

\* f"⚠️ Platform is NOT eligible for AdSense. Needs >{AD_IMPRESSION_THRESHOLD:,.0f} monthly views."
NotEligibleMessage ==
    <<9888, 65039, 32, 80, 108, 97, 116, 102, 111, 114, 109, 32, 105,
      115, 32, 78, 79, 84, 32, 101, 108, 105, 103, 105, 98, 108, 101,
      32, 102, 111, 114, 32, 65, 100, 83, 101, 110, 115, 101, 46, 32,
      78, 101, 101, 100, 115, 32, 62>>
    \o Commas(AD_IMPRESSION_THRESHOLD)
    \o <<32, 109, 111, 110, 116, 104, 108, 121, 32, 118, 105, 101, 119,
        115, 46>>

TotalRevenue(subscription_revenue, ad_revenue) == FAdd(subscription_revenue, ad_revenue)

num_subscribers(a) == FMul(FOfInt(a.mau), FDiv(FloatOf(a.sub_percent), FOfInt(100)))

subscription_revenue(a) == FMul(num_subscribers(a), FloatOf(a.sub_price))

\* lines 62-68
ad_revenue(impressions, ad_rpm) ==
    IF AdEligible(impressions)
    THEN FMul(FDiv(impressions, FOfInt(1000)), ad_rpm)
    ELSE Zero

ad_eligibility_message(impressions) ==
    IF AdEligible(impressions) THEN EligibleMessage ELSE NotEligibleMessage

\* the revenue locals the return reads
RevenueOf(sub, ad, message) ==
    [subscription_revenue |-> sub,
     ad_revenue |-> ad,
     ad_eligibility_message |-> message,
     total_revenue |-> TotalRevenue(sub, ad)]

RevenueFrom(sub, impressions, ad_rpm) ==
    RevenueOf(sub, ad_revenue(impressions, ad_rpm), ad_eligibility_message(impressions))

\* the revenue calculation of a call that does not raise
Revenue(a) ==
    RevenueFrom(subscription_revenue(a), total_monthly_impressions(a), FloatOf(a.ad_rpm))

\* the cost added where it is subtracted
RevenuePlusCost(total_revenue, total_cost) == FAdd(total_revenue, total_cost)

NetProfit(total_revenue, total_cost) == FSub(total_revenue, total_cost)

\* the returned dict
Report(cs, rev) ==
    [costs |-> cs,
     subscription_revenue |-> rev.subscription_revenue,
     ad_revenue |-> rev.ad_revenue,
     total_revenue |-> rev.total_revenue,
     net_profit |-> NetProfit(rev.total_revenue, DictGet(cs, "total")),
     ad_eligibility_message |-> rev.ad_eligibility_message]

Raised(exc) == [raised |-> exc]

\* the outcome of calculate_financials(**a) run alone, on an interpreter
\* whose sum() is compensated or is not
calculate_financials(a, compensated) ==
    IF CostsRaise(a) THEN Raised("ValueError")
    ELSE IF RevenueRaises(a) THEN Raised("ZeroDivisionError")
    ELSE Report(Costs(a, compensated), Revenue(a))

\* costs['total'] at line 73; a missing key raises KeyError
ReportOrKeyError(cs, rev) ==
    IF DictHas(cs, "total") THEN Report(cs, rev) ELSE Raised("KeyError")

---------------------------------------------------------------------------
(* The calls.  A call runs the cost block, the revenue block and the       *)
(* return; each call has its own frame, which holds its local costs.  All  *)
(* the calls of a run are made on one interpreter: sum_compensated is set  *)
(* when the run starts and does not change.                                *)

NumCalls == 2

Calls == 1..NumCalls

None == [none |-> TRUE]

\* one frame for every call, as a module-level costs would be
SharedFrame(c) == 1

\* the frame that holds the locals of call c
Frame(c) == c

VARIABLES pc, args, costs, revenue, result, sum_compensated

vars == <<pc, args, costs, revenue, result, sum_compensated>>

Init ==
    /\ pc = [c \in Calls |-> "idle"]
    /\ args = [c \in Calls |-> None]
    /\ costs = [f \in {Frame(c) : c \in Calls} |-> <<>>]
    /\ revenue = [c \in Calls |-> None]
    /\ result = [c \in Calls |-> None]
    /\ sum_compensated \in BOOLEAN

\* line 114 calls the function; line 20: costs = {}
Call(c, a) ==
    /\ pc[c] = "idle"
    /\ args' = [args EXCEPT ![c] = a]
    /\ costs' = [costs EXCEPT ![Frame(c)] = <<>>]
    /\ pc' = [pc EXCEPT ![c] = "costs"]
    /\ UNCHANGED <<revenue, result, sum_compensated>>

\* lines 21-22: mau == 0
CostsOfZeroMau(c) ==
    /\ pc[c] = "costs"
    /\ IsZeroMau(args[c].mau)
    /\ costs' = [costs EXCEPT ![Frame(c)] = ZeroCosts]
    /\ pc' = [pc EXCEPT ![c] = "revenue"]
    /\ UNCHANGED <<args, revenue, result, sum_compensated>>

\* lines 23-48
CostsOfMau(c) ==
    /\ pc[c] = "costs"
    /\ ~IsZeroMau(args[c].mau)
    /\ ~CostsRaise(args[c])
    /\ costs' = [costs EXCEPT ![Frame(c)] =
                     ComputedCostsInto(costs[Frame(c)], args[c], sum_compensated)]
    /\ pc' = [pc EXCEPT ![c] = "revenue"]
    /\ UNCHANGED <<args, revenue, result, sum_compensated>>

\* lines 24-44: media_processing and storage_delivery are stored, then
\* math.log10 raises and the call ends
CostsDomainError(c) ==
    /\ pc[c] = "costs"
    /\ CostsRaise(args[c])
    /\ costs' = [costs EXCEPT ![Frame(c)] = CostsBeforeScale(costs[Frame(c)], args[c])]
    /\ result' = [result EXCEPT ![c] = Raised("ValueError")]
    /\ pc' = [pc EXCEPT ![c] = "done"]
    /\ UNCHANGED <<args, revenue, sum_compensated>>

\* lines 50-70
RevenueBlock(c) ==
    /\ pc[c] = "revenue"
    /\ IF RevenueRaises(args[c])
       THEN /\ result' = [result EXCEPT ![c] = Raised("ZeroDivisionError")]
            /\ pc' = [pc EXCEPT ![c] = "done"]
            /\ UNCHANGED revenue
       ELSE /\ revenue' = [revenue EXCEPT ![c] = Revenue(args[c])]
            /\ pc' = [pc EXCEPT ![c] = "return"]
            /\ UNCHANGED result
    /\ UNCHANGED <<args, costs, sum_compensated>>

\* lines 72-82
Return(c) ==
    /\ pc[c] = "return"
    /\ result' = [result EXCEPT ![c] = ReportOrKeyError(costs[Frame(c)], revenue[c])]
    /\ pc' = [pc EXCEPT ![c] = "done"]
    /\ UNCHANGED <<args, costs, revenue, sum_compensated>>

\* the script runs again on the next change of a slider
Rerun(c) ==
    /\ pc[c] = "done"
    /\ pc' = [pc EXCEPT ![c] = "idle"]
    /\ args' = [args EXCEPT ![c] = None]
    /\ revenue' = [revenue EXCEPT ![c] = None]
    /\ result' = [result EXCEPT ![c] = None]
    /\ UNCHANGED <<costs, sum_compensated>>

Step(c) ==
    \/ CostsOfZeroMau(c)
    \/ CostsOfMau(c)
    \/ CostsDomainError(c)
    \/ RevenueBlock(c)
    \/ Return(c)
    \/ Rerun(c)

\* one session: call after call
Next ==
    \/ \E a \in Inputs : Call(1, a)
    \/ Step(1)

Spec == Init /\ [][Next]_vars

\* NumCalls sessions that call concurrently
NextConc ==
    \/ \E c \in Calls : \E a \in ConcInputs : Call(c, a)
    \/ \E c \in Calls : Step(c)

SpecConc == Init /\ [][NextConc]_vars

---------------------------------------------------------------------------
(* The claims *)

\* r is a returned report
IsReport(r) == "costs" \in DOMAIN r

\* call c has returned a report
Returned(c) == pc[c] = "done" /\ IsReport(result[c])

\* call c has raised
HasRaised(c) == pc[c] = "done" /\ "raised" \in DOMAIN result[c]

\* the inputs in the domain of the data model: mau >= 0, video_length_sec > 0
\* (the other fields of every input here are in their domains)
Valid(a) == a.mau >= 0 /\ a.video_length_sec > 0

\* costs[k] of the report of call c
Cost(c, k) == DictGet(result[c].costs, k)

Threshold == FOfInt(AD_IMPRESSION_THRESHOLD)

\* the magnitude of a float
Abs(x) == Num(FALSE, x.m, x.e)

\* the tolerance of a comparison of floats, relative to the value: 2^-50,
\* four units in the last place
Epsilon == Num(FALSE, <<0, 0, 0, 128>>, -102)

\* media_processing + storage_delivery + database + compute_recommendation
\* + devops of the report of call c, added as floats in that order
SumOfCosts(c) ==
    FAdd(FAdd(FAdd(FAdd(Cost(c, "media_processing"),
                        Cost(c, "storage_delivery")),
                   Cost(c, "database")),
              Cost(c, "compute_recommendation")),
         Cost(c, "devops"))

\* C1: for every valid input the returned costs['total'] is media_processing
\* + storage_delivery + database + compute_recommendation + devops of the
\* same report within the floating-point tolerance, |total - sum| <=
\* Epsilon * |sum|, on the mau == 0 branch (where both are 0) and on the
\* other, whichever sum() the interpreter has; where sum() adds left to
\* right the two are equal to the last bit
C1_TotalIsSumOfCosts ==
    \A c \in Calls :
        Returned(c) /\ Valid(args[c]) =>
            /\ FLe(Abs(FSub(Cost(c, "total"), SumOfCosts(c))),
                   FMul(Epsilon, Abs(SumOfCosts(c))))
            /\ ~sum_compensated => Cost(c, "total") = SumOfCosts(c)

\* a call with mau > 0 has returned, on an interpreter whose sum() is
\* compensated, a total that is not the float sum of the five costs to the
\* last place
C1_Witness ==
    \E c \in Calls :
        /\ sum_compensated
        /\ Returned(c) /\ Valid(args[c]) /\ args[c].mau > 0
        /\ Cost(c, "devops") # Zero
        /\ Cost(c, "total") # SumOfCosts(c)

\* C2: for every valid input the returned total_revenue is
\* subscription_revenue + ad_revenue and the returned net_profit is
\* total_revenue - costs['total'], eligible or not, mau 0 or not
C2_RevenueAndProfit ==
    \A c \in Calls :
        Returned(c) /\ Valid(args[c]) =>
            /\ result[c].total_revenue =
                   FAdd(result[c].subscription_revenue, result[c].ad_revenue)
            /\ result[c].net_profit = FSub(result[c].total_revenue, Cost(c, "total"))

\* an eligible call has returned with revenue of both kinds and a cost
C2_Witness ==
    \E c \in Calls :
        /\ Returned(c) /\ Valid(args[c])
        /\ result[c].ad_revenue # Zero
        /\ result[c].subscription_revenue # Zero
        /\ Cost(c, "total") # Zero
        /\ result[c].net_profit # result[c].total_revenue

\* C3: a call with mau == 0 returns every cost field 0 and
\* subscription_revenue 0, whatever the other inputs
C3_ZeroMau ==
    \A c \in Calls :
        Returned(c) /\ args[c].mau = 0 =>
            /\ \A i \in 1..Len(CostKeys) : Cost(c, CostKeys[i]) = Zero
            /\ result[c].subscription_revenue = Zero

\* a call with mau == 0 and a subscription price has returned
C3_Witness ==
    \E c \in Calls :
        /\ Returned(c) /\ args[c].mau = 0
        /\ FloatOf(args[c].sub_price) # Zero
        /\ Len(result[c].costs) = Len(CostKeys)

\* the ad revenue of the eligible branch at exactly 2,000,000 impressions
RevenueAtThreshold(a) == FMul(FDiv(Threshold, FOfInt(1000)), FloatOf(a.ad_rpm))

\* C4 (as the code has it): a valid call whose total_monthly_impressions are
\* exactly 2,000,000 returns ad_revenue = impressions / 1000 * ad_rpm and the
\* eligible message, and that ad_revenue is > 0 when ad_rpm > 0 and is 0
\* when ad_rpm is 0; one whose impressions are below returns ad_revenue 0 and
\* the not-eligible message
C4_EligibleAtThreshold ==
    \A c \in Calls :
        Returned(c) /\ Valid(args[c]) =>
            /\ total_monthly_impressions(args[c]) = Threshold =>
                   /\ result[c].ad_revenue = RevenueAtThreshold(args[c])
                   /\ FGt(FloatOf(args[c].ad_rpm), Zero) =>
                          FGt(result[c].ad_revenue, Zero)
                   /\ FloatOf(args[c].ad_rpm) = Zero => result[c].ad_revenue = Zero
                   /\ result[c].ad_eligibility_message = EligibleMessage
            /\ FLt(total_monthly_impressions(args[c]), Threshold) =>
                   /\ result[c].ad_revenue = Zero
                   /\ result[c].ad_eligibility_message = NotEligibleMessage

\* a call with exactly 2,000,000 impressions and ad_rpm > 0 has returned
\* with ad revenue
C4_Witness ==
    \E c \in Calls :
        /\ Returned(c) /\ Valid(args[c])
        /\ total_monthly_impressions(args[c]) = Threshold
        /\ FGt(FloatOf(args[c].ad_rpm), Zero)
        /\ FGt(result[c].ad_revenue, Zero)
        /\ result[c].ad_eligibility_message = EligibleMessage

\* C4 as stated: a valid call whose total_monthly_impressions are exactly
\* 2,000,000 returns ad_revenue > 0, equal to impressions / 1000 * ad_rpm,
\* and the eligible message, whatever its ad_rpm; one whose impressions are
\* below returns ad_revenue 0 and the not-eligible message.  With ad_rpm = 0
\* the call at the threshold returns ad_revenue 0.0.
C4_PositiveAtThreshold ==
    \A c \in Calls :
        Returned(c) /\ Valid(args[c]) =>
            /\ total_monthly_impressions(args[c]) = Threshold =>
                   /\ FGt(result[c].ad_revenue, Zero)
                   /\ result[c].ad_revenue = RevenueAtThreshold(args[c])
                   /\ result[c].ad_eligibility_message = EligibleMessage
            /\ FLt(total_monthly_impressions(args[c]), Threshold) =>
                   /\ result[c].ad_revenue = Zero
                   /\ result[c].ad_eligibility_message = NotEligibleMessage

\* C5: as the text shown to the user says (">2,000,000 monthly views"), a
\* call reports eligible, or earns ad revenue, only with impressions strictly
\* above 2,000,000.  The code tests >=, and a call with exactly 2,000,000
\* impressions is reported eligible.
C5_EligibleOnlyAbove ==
    \A c \in Calls :
        /\ Returned(c) /\ Valid(args[c])
        /\ \/ result[c].ad_eligibility_message = EligibleMessage
           \/ result[c].ad_revenue # Zero
        => FGt(total_monthly_impressions(args[c]), Threshold)

\* C6: no call raises, whatever its numeric inputs.  A call with mau < 0
\* raises at math.log10.
C6_NoCallRaises == \A c \in Calls : ~HasRaised(c)

\* the fields of claim C7 in the report of call c
MonotoneFields(c) ==
    <<Cost(c, "database"), Cost(c, "compute_recommendation"), Cost(c, "devops"),
      Cost(c, "storage_delivery"), result[c].subscription_revenue>>

\* the arguments a and b differ in mau at most
SameButMau(a, b) == [a EXCEPT !.mau = 0] = [b EXCEPT !.mau = 0]

\* C7: of two calls with valid inputs that differ only in mau, the one with
\* the larger mau returns database, compute_recommendation, devops,
\* storage_delivery and subscription_revenue at least as large as the other's
\* (the smaller mau may be 0)
C7_MonotoneInMau ==
    \A c, d \in Calls :
        /\ Returned(c) /\ Returned(d)
        /\ Valid(args[c]) /\ Valid(args[d])
        /\ SameButMau(args[c], args[d])
        /\ args[c].mau <= args[d].mau
        => \A i \in 1..Len(MonotoneFields(c)) :
               FGe(MonotoneFields(d)[i], MonotoneFields(c)[i])

\* two calls have returned, one with mau 0 and one with a larger mau and
\* larger fields
C7_Witness ==
    \E c, d \in Calls :
        /\ Returned(c) /\ Returned(d)
        /\ Valid(args[c]) /\ Valid(args[d])
        /\ SameButMau(args[c], args[d])
        /\ args[c].mau = 0 /\ args[d].mau > 0
        /\ \A i \in 1..Len(MonotoneFields(c)) :
               FGt(MonotoneFields(d)[i], MonotoneFields(c)[i])

\* C8: whatever the interleaving of the calls, a call that has ended has the
\* outcome it has when run alone (on the interpreter of the run), so two
\* calls with equal inputs return equal reports
C8_PureAndDeterministic ==
    /\ \A c \in Calls :
           pc[c] = "done" =>
               result[c] = calculate_financials(args[c], sum_compensated)
    /\ \A c, d \in Calls :
           Returned(c) /\ Returned(d) /\ args[c] = args[d] => result[c] = result[d]

\* two calls with different mau have both returned, each with costs of its own
C8_Witness ==
    \E c, d \in Calls :
        /\ c # d
        /\ Returned(c) /\ Returned(d)
        /\ args[c].mau = 0 /\ args[d].mau > 0
        /\ Cost(c, "total") # Cost(d, "total")

\* C9 (as the code has it): scale_factor is exactly 1.0 at mau = 99,999, where
\* mau + 1 = 100,000, and there database == 2550, compute_recommendation ==
\* 3250 and devops == 50; at mau = 100,000 scale_factor is above 1.0 and each
\* of the three costs is above its anchor
C9_AnchorAt99999 ==
    \A c \in Calls :
        Returned(c) =>
            /\ args[c].mau = 99999 =>
                   /\ scale_factor(args[c].mau) = One
                   /\ Cost(c, "database") = FOfInt(2550)
                   /\ Cost(c, "compute_recommendation") = FOfInt(3250)
                   /\ Cost(c, "devops") = FOfInt(50)
            /\ args[c].mau = 100000 =>
                   /\ FGt(scale_factor(args[c].mau), One)
                   /\ FGt(Cost(c, "database"), FOfInt(2550))
                   /\ FGt(Cost(c, "compute_recommendation"), FOfInt(3250))
                   /\ FGt(Cost(c, "devops"), FOfInt(50))

\* a call with mau = 100,000 has returned a database cost above 2550
C9_Witness ==
    \E c \in Calls :
        /\ Returned(c) /\ args[c].mau = 100000
        /\ FGt(Cost(c, "database"), FOfInt(2550))

\* C9 as stated: scale_factor is below 1.0 at mau = 99,999 and equals 1.0 at
\* mau = 100,000, where database == 2550, compute_recommendation == 3250 and
\* devops == 50
C9_AnchorAt100000 ==
    \A c \in Calls :
        Returned(c) =>
            /\ args[c].mau = 99999 => FLt(scale_factor(args[c].mau), One)
            /\ args[c].mau = 100000 =>
                   /\ scale_factor(args[c].mau) = One
                   /\ Cost(c, "database") = FOfInt(2550)
                   /\ Cost(c, "compute_recommendation") = FOfInt(3250)
                   /\ Cost(c, "devops") = FOfInt(50)

\* C10: every value of the video_length_sec slider, and every positive
\* video_length_sec of a call, has gb_per_video > 0, and no call divides by
\* zero; a call whose gb_per_video is <= 0 skips the division and returns
\* 0 impressions, ad_revenue 0 and the not-eligible message
C10_DivisionGuard ==
    /\ \A v \in SliderVideoLengths : FGt(gb_per_video(v), Zero)
    /\ \A c \in Calls :
           /\ pc[c] = "done" => result[c] # Raised("ZeroDivisionError")
           /\ Returned(c) /\ args[c].video_length_sec > 0 =>
                  /\ FGt(gb_per_video(args[c].video_length_sec), Zero)
                  /\ views_per_user(args[c]) =
                         FDiv(FloatOf(args[c].data_consumption_gb),
                              gb_per_video(args[c].video_length_sec))
           /\ Returned(c) /\ FLe(gb_per_video(args[c].video_length_sec), Zero) =>
                  /\ views_per_user(args[c]) = Zero
                  /\ total_monthly_impressions(args[c]) = Zero
                  /\ result[c].ad_revenue = Zero
                  /\ result[c].ad_eligibility_message = NotEligibleMessage

\* a call with video_length_sec 0 and users has returned not eligible
C10_Witness ==
    \E c \in Calls :
        /\ Returned(c) /\ args[c].video_length_sec = 0 /\ args[c].mau > 0
        /\ gb_per_video(args[c].video_length_sec) = Zero
        /\ result[c].ad_eligibility_message = NotEligibleMessage

=============================================================================
